---- MODULE Spec2Model ----
(***************************************************************************)
(* State-machine model of the NYC apartment tracker: the scrape-and-notify *)
(* run (apartment_tracker.run_scraper), the staleness sweep, the tracked-  *)
(* listing store with its two backends (JSON file, MongoDB) and the        *)
(* notification log used to deduplicate personalized notifications.        *)
(*                                                                         *)
(* Free text is modelled as a tuple of one-character strings, so that      *)
(* parse_price and the f"${n:,}" formatting are computed, not assumed.     *)
(* An optional value (Python None) is a tuple of length 0 or 1.            *)
(***************************************************************************)
EXTENDS Integers, Sequences, FiniteSets, TLC

\* ------------------------------------------------------------------------
\* Bounds of the model
\* ------------------------------------------------------------------------
\* number of scrape-and-notify runs in one behaviour
MaxRuns == 2
\* last day the clock may reach
MaxTime == 30
MaxPages == 6
MaxDigests == 3
MaxDays == 2

\* ------------------------------------------------------------------------
\* Program constants
\* ------------------------------------------------------------------------
\* timedelta(days=7) of cleanup_stale_listings
StaleDays == 7
\* max_checks default of cleanup_stale_listings
max_checks == 10
\* page cap of scrape_neighborhood
PageCap == 5
\* expireAfterSeconds of the notification log, in days
RetentionDays == 30
\* config["search"]["max_price"]
max_price == 4000
\* config["search"]["geo_bounds"]
geo_bounds == [west_longitude |-> 1, east_longitude |-> 2]

None == <<>>
Some(x) == <<x>>

\* ------------------------------------------------------------------------
\* Price parsing and formatting
\* ------------------------------------------------------------------------
Digits == {"0", "1", "2", "3", "4", "5", "6", "7", "8", "9"}

DigitVal(c) ==
    CASE c = "0" -> 0 [] c = "1" -> 1 [] c = "2" -> 2 [] c = "3" -> 3
      [] c = "4" -> 4 [] c = "5" -> 5 [] c = "6" -> 6 [] c = "7" -> 7
      [] c = "8" -> 8 [] c = "9" -> 9

DigitChar(d) ==
    CASE d = 0 -> "0" [] d = 1 -> "1" [] d = 2 -> "2" [] d = 3 -> "3"
      [] d = 4 -> "4" [] d = 5 -> "5" [] d = 6 -> "6" [] d = 7 -> "7"
      [] d = 8 -> "8" [] d = 9 -> "9"

IsComma(c) == c = ","
NotComma(c) == ~IsComma(c)

\* price_str.replace(",", "")
StripCommas(s) == SelectSeq(s, NotComma)

\* the leftmost maximal run of digits of s starting the search at index i:
\* re.search(r"[\d,]+", ...) on a text that holds no comma any more
RECURSIVE DigitRunFrom(_, _)
DigitRunFrom(s, i) ==
    IF i > Len(s) \/ s[i] \notin Digits THEN <<>>
    ELSE <<s[i]>> \o DigitRunFrom(s, i + 1)

RECURSIVE FirstDigitRun(_, _)
FirstDigitRun(s, i) ==
    IF i > Len(s) THEN <<>>
    ELSE IF s[i] \in Digits THEN DigitRunFrom(s, i)
    ELSE FirstDigitRun(s, i + 1)

\* int(match.group(0))
RECURSIVE ToInt(_)
ToInt(ds) ==
    IF Len(ds) = 0 THEN 0
    ELSE 10 * ToInt(SubSeq(ds, 1, Len(ds) - 1)) + DigitVal(ds[Len(ds)])

parse_price(price_str) ==
    LET run == FirstDigitRun(StripCommas(price_str), 1)
    IN IF Len(run) = 0 THEN None ELSE Some(ToInt(run))

\* str(n)
RECURSIVE Decimal(_)
Decimal(n) ==
    IF n < 10 THEN <<DigitChar(n)>>
    ELSE Decimal(n \div 10) \o <<DigitChar(n % 10)>>

\* three digits, zero padded
Pad3(n) ==
    <<DigitChar(n \div 100), DigitChar((n \div 10) % 10), DigitChar(n % 10)>>

\* f"{n:,}"
RECURSIVE Grouped(_)
Grouped(n) ==
    IF n < 1000 THEN Decimal(n)
    ELSE Grouped(n \div 1000) \o <<",">> \o Pad3(n % 1000)

\* f"${new_price:,}"
FormatPrice(n) == <<"$">> \o Grouped(n)

\* ------------------------------------------------------------------------
\* Dictionaries (Python dicts with optional keys)
\* ------------------------------------------------------------------------
Range(f) == {f[x] : x \in DOMAIN f}

Get(d, k, default) == IF k \in DOMAIN d THEN d[k] ELSE default
DictSet(d, k, v) == [x \in DOMAIN d \cup {k} |-> IF x = k THEN v ELSE d[x]]
DictDel(d, k) == [x \in DOMAIN d \ {k} |-> d[x]]
EmptyDict == [x \in {} |-> 0]

\* ------------------------------------------------------------------------
\* The data the model runs on
\* ------------------------------------------------------------------------
URLS == {"u1", "u2"}
Users == {"a"}

P3000 == <<"$", "3", ",", "0", "0", "0">>
P2800 == <<"$", "2", ",", "8", "0", "0">>
P9000 == <<"$", "9", ",", "0", "0", "0">>
NA == <<"N", "/", "A">>
P0 == <<"$", "0">>
OneBed == <<"1", " ", "b", "e", "d">>
Studio == <<"S", "t", "u", "d", "i", "o">>
\* a bed descriptor that names no count
BedsOnly == <<"b", "e", "d", "s">>

\* NEIGHBORHOOD_ALIASES, restricted to the search areas of the model
NEIGHBORHOOD_ALIASES ==
    [slug \in {"kips-bay", "murray-hill"} |->
        IF slug = "kips-bay" THEN {"Kips Bay"} ELSE {"Murray Hill", "Kips Bay"}]

\* VALID_NEIGHBORHOODS, restricted likewise ("midtown" has no alias set)
VALID_NEIGHBORHOODS ==
    [slug \in {"kips-bay", "murray-hill", "midtown"} |->
        CASE slug = "kips-bay" -> "Kips Bay"
          [] slug = "murray-hill" -> "Murray Hill"
          [] slug = "midtown" -> "Midtown"]

\* config["search"]["neighborhoods"]
ConfigNeighborhoods == {"murray-hill"}

\* the order of sorted() on the slugs of the model
SlugRank(slug) ==
    CASE slug = "kips-bay" -> 1 [] slug = "midtown" -> 2 [] slug = "murray-hill" -> 3

Listing(url, price, hood, beds) ==
    [url |-> url, address |-> url, price |-> price, beds |-> beds,
     neighborhood |-> hood]

\* the cards a page of the site can show
RawRecords ==
    {Listing("u1", p, "Kips Bay", OneBed) : p \in {P3000, P2800}}
    \cup {Listing("u2", p, "Murray Hill", Studio) : p \in {NA, P9000}}
    \cup {Listing("u2", P3000, h, Studio) : h \in {"", "Greenpoint"}}

OkPage(ls) == [ok |-> TRUE, listings |-> ls]
FailedPage == [ok |-> FALSE, listings |-> <<>>]

FirstPages ==
    {FailedPage, OkPage(<<>>)}
    \cup {OkPage(<<r>>) : r \in RawRecords}
    \cup {OkPage(<<r, q>>) : r \in {x \in RawRecords : x.url = "u1"},
                             q \in {x \in RawRecords : x.url = "u2"}}

NextPages ==
    {FailedPage, OkPage(<<>>)} \cup {OkPage(<<r>>) : r \in RawRecords}

\* what the site answers for one search: the page count it reports and its pages
Sites ==
    {[max_page |-> 1, pages |-> <<p>>] : p \in FirstPages}
    \cup {[max_page |-> 7, pages |-> <<p, q>>] : p \in FirstPages, q \in NextPages}

\* a site with MaxPages pages of one card each, one of which can fail to load
\* or show no card, reporting 1, 3 or 9 pages
PageCard(k) == Listing("p" \o ToString(k), P3000, "Kips Bay", OneBed)

DeepSites ==
    {[max_page |-> m, pages |-> [k \in 1..MaxPages |-> IF k = bad THEN kind ELSE "card"]] :
        m \in {1, 3, 9}, bad \in 0..MaxPages, kind \in {"failed", "empty"}}

\* the pages of a deep site as fetch_page and parse_listings return them
DeepPage(kind, k) ==
    CASE kind = "failed" -> FailedPage
      [] kind = "empty" -> OkPage(<<>>)
      [] kind = "card" -> OkPage(<<PageCard(k)>>)

DeepSite(d) ==
    [max_page |-> d.max_page, pages |-> [k \in 1..MaxPages |-> DeepPage(d.pages[k], k)]]

\* a site that shows no card: its first page is empty or fails to load
QuietSites == {[max_page |-> 1, pages |-> <<p>>] : p \in {FailedPage, OkPage(<<>>)}}

\* the answers the listing site can give to one search
SiteAnswers(depth) ==
    IF depth = "deep" THEN {DeepSite(d) : d \in DeepSites}
    ELSE IF depth = "quiet" THEN QuietSites
    ELSE Sites

\* ------------------------------------------------------------------------
\* scrape_neighborhood
\* ------------------------------------------------------------------------
\* fetch_page for page k; past the last page the site shows no cards
PageAt(site, k) ==
    IF k <= Len(site.pages) THEN site.pages[k] ELSE OkPage(<<>>)

Min(a, b) == IF a <= b THEN a ELSE b

\* variant: a failed fetch discards the records of the earlier pages
AfterFailedFetch_discards(raw) == <<>>

\* if not soup: break
AfterFailedFetch(raw) == raw

\* the loop over pages 2..max_page: stops at a failed fetch or an empty page
RECURSIVE FetchMore(_, _, _, _)
FetchMore(site, page, last, raw) ==
    IF page > last THEN raw
    ELSE LET p == PageAt(site, page)
         IN IF ~p.ok THEN AfterFailedFetch(raw)
            ELSE IF Len(p.listings) = 0 THEN raw
            ELSE FetchMore(site, page + 1, last, raw \o p.listings)

\* the answers to the fetches of the loop, in order
RECURSIVE FetchedMore(_, _, _)
FetchedMore(site, page, last) ==
    IF page > last THEN <<>>
    ELSE LET p == PageAt(site, page)
         IN IF ~p.ok \/ Len(p.listings) = 0 THEN <<p>>
            ELSE <<p>> \o FetchedMore(site, page + 1, last)

\* the answers to the fetches scrape_neighborhood issues for one area
FetchedPages(site) ==
    IF ~site.pages[1].ok THEN <<site.pages[1]>>
    ELSE <<site.pages[1]>> \o FetchedMore(site, 2, Min(site.max_page, PageCap))

\* number of page fetches the loop issues
RECURSIVE FetchCount(_, _, _)
FetchCount(site, page, last) ==
    IF page > last THEN 0
    ELSE LET p == PageAt(site, page)
         IN IF ~p.ok \/ Len(p.listings) = 0 THEN 1
            ELSE 1 + FetchCount(site, page + 1, last)

RawListings(site) ==
    FetchMore(site, 2, Min(site.max_page, PageCap), site.pages[1].listings)

\* keep the first occurrence of every url
RECURSIVE Dedup(_, _)
Dedup(raw, seen_urls) ==
    IF Len(raw) = 0 THEN <<>>
    ELSE IF Head(raw).url \in seen_urls THEN Dedup(Tail(raw), seen_urls)
    ELSE <<Head(raw)>> \o Dedup(Tail(raw), seen_urls \cup {Head(raw).url})

\* variant: no ceiling
UnderMaxPrice_any_price(l) == TRUE

UnderMaxPrice(l) ==
    LET price_val == parse_price(l.price)
    IN ~(price_val # None /\ price_val[1] > max_price)

RECURSIVE KeepAllowed(_, _)
KeepAllowed(ls, allowed) ==
    IF Len(ls) = 0 THEN <<>>
    ELSE IF Head(ls).neighborhood \in allowed
         THEN <<Head(ls)>> \o KeepAllowed(Tail(ls), allowed)
         ELSE KeepAllowed(Tail(ls), allowed)

\* variant: the price filter runs before the deduplication
FilterListings_price_first(raw, neighborhood) ==
    LET filtered == Dedup(SelectSeq(raw, UnderMaxPrice), {})
    IN IF neighborhood \in DOMAIN NEIGHBORHOOD_ALIASES
          /\ NEIGHBORHOOD_ALIASES[neighborhood] # {}
       THEN KeepAllowed(filtered, NEIGHBORHOOD_ALIASES[neighborhood])
       ELSE filtered

FilterListings(raw, neighborhood) ==
    LET unique_listings == Dedup(raw, {})
        filtered == SelectSeq(unique_listings, UnderMaxPrice)
    IN IF neighborhood \in DOMAIN NEIGHBORHOOD_ALIASES
          /\ NEIGHBORHOOD_ALIASES[neighborhood] # {}
       THEN KeepAllowed(filtered, NEIGHBORHOOD_ALIASES[neighborhood])
       ELSE filtered

\* build_search_url: the area of the path and the filters of the query; price and
\* beds come from the search configuration, the no-fee filter is added when the
\* search configuration sets it
build_search_url(neighborhood, no_fee) ==
    [neighborhood |-> neighborhood, price |-> max_price, no_fee |-> no_fee]

\* the search URLs a run has built once it has scraped the first n of its areas
RunQueries(areas, n, no_fee) == [i \in 1..n |-> build_search_url(areas[i], no_fee)]

scrape_neighborhood(site, neighborhood) ==
    IF ~site.pages[1].ok THEN <<>>
    ELSE FilterListings(RawListings(site), neighborhood)

\* ------------------------------------------------------------------------
\* Geo lookup and geographic bounds
\* ------------------------------------------------------------------------
Geo(lat, lon) == Some([latitude |-> lat, longitude |-> lon])

\* what the geo service can answer: nothing (error or unknown address), a point
\* inside the bounds, a point east of them
GeoAnswers == {None, Geo(Some(40), Some(1)), Geo(Some(40), Some(3))}

\* a response of the geo service that geoclient_lookup cannot read (a latitude
\* that is not a number, a cross street that is null): the conversion raises an
\* exception that is not a requests.RequestException, which geoclient_lookup
\* does not catch
Unreadable == <<[raises |-> TRUE]>>

\* geoclient_lookup: an address without a house number is not looked up; the
\* result Unreadable stands for the exception that leaves the function
geoclient_lookup(address, answer) == IF address = "" THEN None ELSE answer

\* try: geo = geoclient_lookup(...) except Exception: geo stays None
Caught(geo) == IF geo = Unreadable THEN None ELSE geo

\* variant: only the western bound is tested
is_within_geo_bounds_west_only(longitude) ==
    IF longitude = None THEN TRUE
    ELSE geo_bounds.west_longitude <= longitude[1]

is_within_geo_bounds(longitude) ==
    IF longitude = None THEN TRUE
    ELSE geo_bounds.west_longitude <= longitude[1]
         /\ longitude[1] <= geo_bounds.east_longitude

HasCoordinates(geo) ==
    geo # None /\ geo[1].latitude # None /\ geo[1].longitude # None

\* the lazy geo backfill of a tracked entry: the entry with coordinates stored
Backfilled(entry, geo) ==
    IF HasCoordinates(geo)
    THEN DictSet(DictSet(entry, "latitude", geo[1].latitude[1]),
                 "longitude", geo[1].longitude[1])
    ELSE entry

\* variant: a lookup never places a record outside the bounds
OutsideBounds_never(geo) == FALSE

OutsideBounds(geo) == geo # None /\ ~is_within_geo_bounds(geo[1].longitude)

\* ------------------------------------------------------------------------
\* Price drop detection
\* ------------------------------------------------------------------------
\* round(x, 1) of savings / old_price * 100, in tenths of a percent
RoundPct(savings, old_price) ==
    LET q == (savings * 1000) \div old_price
        r == (savings * 1000) % old_price
    IN IF 2 * r > old_price \/ (2 * r = old_price /\ q % 2 = 1) THEN q + 1 ELSE q

\* variant: any observed price other than the stored one is a change
detect_price_change_any_other(seen_entry, current_price) ==
    LET old_price == parse_price(Get(seen_entry, "price", <<>>))
    IN IF old_price = None \/ current_price = None THEN None
       ELSE IF current_price[1] = old_price[1] THEN None
       ELSE Some([old_price |-> old_price[1], new_price |-> current_price[1],
                  savings |-> old_price[1] - current_price[1],
                  pct |-> 0])

detect_price_change(seen_entry, current_price) ==
    LET old_price == parse_price(Get(seen_entry, "price", <<>>))
    IN IF old_price = None \/ current_price = None THEN None
       ELSE IF current_price[1] >= old_price[1] THEN None
       ELSE Some([old_price |-> old_price[1], new_price |-> current_price[1],
                  savings |-> old_price[1] - current_price[1],
                  pct |-> RoundPct(old_price[1] - current_price[1], old_price[1])])

\* variant: the history grows but the stored price is left as it was
update_price_history_keeps_price(seen_entry, new_price, t) ==
    LET history == Get(seen_entry, "price_history", <<>>)
    IN DictSet(seen_entry, "price_history",
               Append(history, [price |-> new_price, date |-> t]))

update_price_history(seen_entry, new_price, t) ==
    LET history == Get(seen_entry, "price_history", <<>>)
    IN DictSet(DictSet(seen_entry, "price_history",
                       Append(history, [price |-> new_price, date |-> t])),
               "price", FormatPrice(new_price))

\* ------------------------------------------------------------------------
\* listing_matches_user
\* ------------------------------------------------------------------------
\* str.lower() on the letters the model's descriptors use
LowerChar(c) ==
    CASE c = "S" -> "s" [] c = "N" -> "n" [] c = "A" -> "a" [] c = "B" -> "b"
      [] c = "L" -> "l" [] c = "O" -> "o" [] c = "F" -> "f" [] c = "M" -> "m"
      [] c = "R" -> "r" [] c = "K" -> "k" [] c = "E" -> "e" [] c = "T" -> "t"
      [] OTHER -> c

Lower(s) == [i \in 1..Len(s) |-> LowerChar(s[i])]

\* sub in s
Contains(s, sub) ==
    \E i \in 1..(Len(s) - Len(sub) + 1) : SubSeq(s, i, i + Len(sub) - 1) = sub

StudioWord == <<"s", "t", "u", "d", "i", "o">>

BedMatches(bed_type, listing_beds) ==
    \/ Lower(bed_type) = StudioWord /\ Contains(listing_beds, StudioWord)
    \/ LET bed_num == FirstDigitRun(bed_type, 1)
           listing_num == FirstDigitRun(listing_beds, 1)
       IN Len(bed_num) > 0 /\ Len(listing_num) > 0 /\ listing_num = bed_num

\* variant: only the alias set is consulted, not the display name
HoodMatches_alias_only(listing_hood, slug) ==
    listing_hood \in Get(NEIGHBORHOOD_ALIASES, slug, {})

HoodMatches(listing_hood, slug) ==
    \/ listing_hood \in Get(NEIGHBORHOOD_ALIASES, slug, {})
    \/ LET display == Get(VALID_NEIGHBORHOODS, slug, "")
       IN display # "" /\ listing_hood = display

MatchesNeighborhoods(listing, filters) ==
    LET user_neighborhoods == filters.neighborhoods
        listing_hood == Get(listing, "neighborhood", "")
    IN user_neighborhoods = {}
       \/ (listing_hood # "" /\ \E slug \in user_neighborhoods :
                                    HoodMatches(listing_hood, slug))

MatchesPrice(listing, filters) ==
    LET listing_price == parse_price(Get(listing, "price", <<>>))
    IN filters.max_price > 0 /\ listing_price # None
       => /\ listing_price[1] <= filters.max_price
          /\ ~(filters.min_price > 0 /\ listing_price[1] < filters.min_price)

\* variant: an empty bed-type set matches no listing with a known descriptor
MatchesBeds_needs_choice(listing, filters) ==
    LET listing_beds == Lower(Get(listing, "beds", <<>>))
    IN \/ Len(listing_beds) = 0
       \/ listing_beds = <<"n", "/", "a">>
       \/ \E bed_type \in filters.bed_rooms : BedMatches(bed_type, listing_beds)

MatchesBeds(listing, filters) ==
    LET listing_beds == Lower(Get(listing, "beds", <<>>))
    IN \/ filters.bed_rooms = {}
       \/ Len(listing_beds) = 0
       \/ listing_beds = <<"n", "/", "a">>
       \/ \E bed_type \in filters.bed_rooms : BedMatches(bed_type, listing_beds)

MatchesGeo(listing, filters) ==
    filters.geo_bounds # None /\ "longitude" \in DOMAIN listing
    => /\ filters.geo_bounds[1].west_longitude <= listing.longitude
       /\ listing.longitude <= filters.geo_bounds[1].east_longitude

listing_matches_user(listing, user_prefs) ==
    /\ MatchesNeighborhoods(listing, user_prefs.filters)
    /\ MatchesPrice(listing, user_prefs.filters)
    /\ MatchesBeds(listing, user_prefs.filters)
    /\ MatchesGeo(listing, user_prefs.filters)

\* DEFAULT_FILTERS and DEFAULT_NOTIFICATION_SETTINGS
DEFAULT_FILTERS ==
    [neighborhoods |-> {}, min_price |-> 0, max_price |-> 5000, bed_rooms |-> {},
     no_fee |-> FALSE, geo_bounds |-> None]

DEFAULT_NOTIFICATION_SETTINGS ==
    [new_listings |-> TRUE, price_drops |-> TRUE, daily_digest |-> TRUE]

\* ------------------------------------------------------------------------
\* Notification log (db.py) and the personalized fan-out
\* ------------------------------------------------------------------------
\* variant: the log is never consulted
was_notification_sent_never(log, discord_user_id, listing_url, notification_type) ==
    FALSE

\* variant: only a delivered send counts
was_notification_sent_if_delivered(log, discord_user_id, listing_url, notification_type) ==
    \E e \in log : /\ e.discord_user_id = discord_user_id
                   /\ e.listing_url = listing_url
                   /\ e.notification_type = notification_type
                   /\ e.success

was_notification_sent(log, discord_user_id, listing_url, notification_type) ==
    \E e \in log : /\ e.discord_user_id = discord_user_id
                   /\ e.listing_url = listing_url
                   /\ e.notification_type = notification_type

\* variant: the entry replaces the log
log_notification_only_latest(log, discord_user_id, listing_url, notification_type, success, t) ==
    {[discord_user_id |-> discord_user_id, listing_url |-> listing_url,
      notification_type |-> notification_type, sent_at |-> t, success |-> success]}

\* variant: every attempt is logged as a success
log_notification_as_sent(log, discord_user_id, listing_url, notification_type, success, t) ==
    log \cup {[discord_user_id |-> discord_user_id, listing_url |-> listing_url,
               notification_type |-> notification_type, sent_at |-> t,
               success |-> TRUE]}

log_notification(log, discord_user_id, listing_url, notification_type, success, t) ==
    log \cup {[discord_user_id |-> discord_user_id, listing_url |-> listing_url,
               notification_type |-> notification_type, sent_at |-> t,
               success |-> success]}

get_all_subscribed_users(userdb) == {u \in DOMAIN userdb : userdb[u].subscribed}

Dm(user_id, kind, url, ok) ==
    [chan |-> "dm", kind |-> kind, url |-> url, user |-> user_id, ok |-> ok]

\* a webhook send and its result, which run_scraper drops
Webhook(kind, url, ok) ==
    [chan |-> "webhook", kind |-> kind, url |-> url, user |-> "", ok |-> ok]

\* variant: the loop over the events ends at the first failed send
NextEvents_until_failure(events, success) == IF success THEN Tail(events) ELSE <<>>

\* the events the loop goes on with after a send
NextEvents(events, success) == Tail(events)

\* one of the two inner loops of send_personalized_notifications: acc holds the
\* notification log and the DMs attempted so far, dm_ok the result of each send
RECURSIVE SendEach(_, _, _, _, _, _, _)
SendEach(user_id, user, kind, events, acc, dm_ok, t) ==
    IF Len(events) = 0 THEN acc
    ELSE LET listing == Head(events)
             url == Get(listing, "url", "")
         IN IF ~listing_matches_user(listing, user)
               \/ was_notification_sent(acc.log, user_id, url, kind)
            THEN SendEach(user_id, user, kind, Tail(events), acc, dm_ok, t)
            ELSE LET success == dm_ok[<<user_id, url, kind>>]
                 IN SendEach(user_id, user, kind, NextEvents(events, success),
                        [log |-> log_notification(acc.log, user_id, url, kind, success, t),
                         sent |-> Append(acc.sent, Dm(user_id, kind, url, success))],
                        dm_ok, t)

DropListings(price_drops) == [i \in 1..Len(price_drops) |-> price_drops[i].listing]

\* the body of the loop over users
NotifyUser(user_id, user, new, drops, acc, dm_ok, t) ==
    LET notif_settings == user.notification_settings
        after_new == IF notif_settings.new_listings
                     THEN SendEach(user_id, user, "new_listing", new, acc, dm_ok, t)
                     ELSE acc
    IN IF notif_settings.price_drops
       THEN SendEach(user_id, user, "price_drop", DropListings(drops), after_new, dm_ok, t)
       ELSE after_new

RECURSIVE NotifyUsers(_, _, _, _, _, _, _)
NotifyUsers(todo, userdb, new, drops, acc, dm_ok, t) ==
    IF todo = {} THEN acc
    ELSE LET user_id == CHOOSE u \in todo : TRUE
         IN NotifyUsers(todo \ {user_id}, userdb, new, drops,
                        NotifyUser(user_id, userdb[user_id], new, drops, acc, dm_ok, t),
                        dm_ok, t)

send_personalized_notifications(new, drops, log, userdb, dm_ok, t) ==
    NotifyUsers(get_all_subscribed_users(userdb), userdb, new, drops,
                [log |-> log, sent |-> <<>>], dm_ok, t)

\* ------------------------------------------------------------------------
\* cleanup_stale_listings
\* ------------------------------------------------------------------------
StatusAnswers == {"active", "gone", "unknown"}

\* a last_scraped that datetime.fromisoformat rejects (times are not negative)
NotADate == -2

\* variant: a record last scraped exactly seven days ago is stale too
IsStale_from_seven_days(entry, t) ==
    \/ "last_scraped" \notin DOMAIN entry
    \/ entry.last_scraped = NotADate
    \/ entry.last_scraped <= t - StaleDays

\* (url, None) or (url, ts) is appended to stale
IsStale(entry, t) ==
    \/ "last_scraped" \notin DOMAIN entry
    \/ entry.last_scraped = NotADate
    \/ entry.last_scraped < t - StaleDays

\* sort key x[1] or datetime.min: a last_scraped that is missing or not a date
\* sorts as datetime.min
StaleKey(entry) ==
    IF "last_scraped" \in DOMAIN entry /\ entry.last_scraped # NotADate
    THEN entry.last_scraped ELSE -1

StaleUrls(seen_, t) == {u \in DOMAIN seen_ : IsStale(seen_[u], t)}

\* the orders of the urls S by ascending sort key, urls of equal key either way
RECURSIVE OrdersByKey(_, _)
OrdersByKey(S, seen_) ==
    IF S = {} THEN {<<>>}
    ELSE UNION {{<<u>> \o o : o \in OrdersByKey(S \ {u}, seen_)} :
                   u \in {x \in S : \A y \in S : StaleKey(seen_[x]) <= StaleKey(seen_[y])}}

\* the orders stale.sort() can leave the stale urls in (ties keep dict order)
StaleOrders(seen_, t) == OrdersByKey(StaleUrls(seen_, t), seen_)

StatusCall(url, status) == [call |-> "status", url |-> url, status |-> status]
GeoCall(url, tracked, geo) == [call |-> "geo", url |-> url, tracked |-> tracked, geo |-> geo]

\* variant: the timestamp is not refreshed
MarkScraped_not(entry, t) == entry

\* seen[url]["last_scraped"] = now
MarkScraped(entry, t) == DictSet(entry, "last_scraped", t)

\* variant: the sweep also deletes on an inconclusive status
SweepRemoves_unless_active(status) == status # "active"

\* the status on which the sweep deletes the record
SweepRemoves(status) == status = "gone"

\* variant: the sweep also refreshes on an inconclusive status
SweepRefreshes_unless_gone(status) == status # "gone"

\* the status on which the sweep refreshes last_scraped
SweepRefreshes(status) == status = "active"

\* the body of the loop over stale[:max_checks]
CleanupOne(url, acc, key, geo_of, status_of, t) ==
    IF url \notin DOMAIN acc.seen THEN acc
    ELSE LET entry == acc.seen[url]
             lookup == key /\ "latitude" \notin DOMAIN entry
             geo == IF lookup THEN geoclient_lookup(Get(entry, "address", ""), geo_of[url])
                    ELSE None
             filled == IF lookup THEN DictSet(acc.seen, url, Backfilled(entry, geo))
                       ELSE acc.seen
             calls1 == IF lookup THEN acc.calls \cup {GeoCall(url, TRUE, geo)} ELSE acc.calls
             status == status_of[url]
         IN IF lookup /\ OutsideBounds(geo)
            THEN [seen |-> DictDel(filled, url), removed |-> acc.removed + 1, calls |-> calls1]
            ELSE [seen |-> IF SweepRemoves(status) THEN DictDel(filled, url)
                           ELSE IF SweepRefreshes(status)
                           THEN DictSet(filled, url, MarkScraped(filled[url], t))
                           ELSE filled,
                  removed |-> IF SweepRemoves(status) THEN acc.removed + 1
                              ELSE acc.removed,
                  calls |-> calls1 \cup {StatusCall(url, status)}]

RECURSIVE CleanupLoop(_, _, _, _, _, _)
CleanupLoop(order, acc, key, geo_of, status_of, t) ==
    IF Len(order) = 0 THEN acc
    ELSE CleanupLoop(Tail(order), CleanupOne(Head(order), acc, key, geo_of, status_of, t),
                     key, geo_of, status_of, t)

\* variant: the sweep returns the number of records it checked
cleanup_stale_listings_counts_checked(order, seen_, calls_, key, geo_of, status_of, t) ==
    [CleanupLoop(SubSeq(order, 1, Min(Len(order), max_checks)),
                 [seen |-> seen_, removed |-> 0, calls |-> calls_],
                 key, geo_of, status_of, t)
        EXCEPT !.removed = Min(Len(order), max_checks)]

cleanup_stale_listings(order, seen_, calls_, key, geo_of, status_of, t) ==
    CleanupLoop(SubSeq(order, 1, Min(Len(order), max_checks)),
                [seen |-> seen_, removed |-> 0, calls |-> calls_],
                key, geo_of, status_of, t)

\* ------------------------------------------------------------------------
\* Value score system. Amounts are exact fractions <<numerator, denominator>>
\* with a positive denominator; the medians are whole dollars, a distance is
\* in hundredths of a mile (find_nearby_stations rounds to two places) and
\* the score is in tenths.
\* ------------------------------------------------------------------------
\* the greatest common divisor, to keep a fraction in lowest terms
RECURSIVE GCD(_, _)
GCD(a, b) == IF b = 0 THEN a ELSE GCD(b, a % b)

\* max(0, min(10, x)) for x = num / den
Clamp10(num, den) ==
    IF num <= 0 THEN <<0, 1>>
    ELSE IF num >= 10 * den THEN <<10, 1>>
    ELSE <<num \div GCD(num, den), den \div GCD(num, den)>>

\* the neutral sub-score 5.0
Neutral == <<5, 1>>

\* price vs neighborhood median: (1.2 - price / median) / 0.04
price_score(price, hood, medians) ==
    IF hood \in DOMAIN medians /\ medians[hood] > 0
    THEN Clamp10(30 * medians[hood] - 25 * price, medians[hood])
    ELSE Neutral

\* variant: the price per square foot taken upside down (sqft_val / price)
sqft_score_inverted(price, sqft_str) ==
    LET run == FirstDigitRun(StripCommas(sqft_str), 1)
    IN IF Len(run) = 0 THEN Neutral
       ELSE IF ToInt(run) > 0 /\ price > 0
            THEN Clamp10(35 * price - 5 * ToInt(run), 2 * price)
       ELSE Neutral

\* price per sqft: (7 - price / sqft_val) / 0.4, sqft_val the first run of
\* digits of the descriptor
sqft_score(price, sqft_str) ==
    LET run == FirstDigitRun(StripCommas(sqft_str), 1)
    IN IF Len(run) = 0 THEN Neutral
       ELSE IF ToInt(run) > 0
            THEN Clamp10(35 * ToInt(run) - 5 * price, 2 * ToInt(run))
       ELSE Neutral

\* subway proximity: (0.5 - closest) / 0.05, closest the distance of the first
\* station of the list (an empty list stands for None as well)
subway_score(nearby_stations) ==
    IF Len(nearby_stations) > 0
    THEN Clamp10(50 - nearby_stations[1].distance_mi, 5)
    ELSE Neutral

\* round(x, 1) in tenths, for x = num / (10 * den): the nearest integer to
\* num / den. When num / den lies half way between two integers the binary
\* floating point sum of the code lies a little below or a little above, which
\* the exact fractions do not tell: half_up says which.
RoundTenths(num, den, half_up) ==
    LET q == num \div den
        r == num % den
    IN IF 2 * r < den THEN q
       ELSE IF 2 * r > den THEN q + 1
       ELSE IF half_up THEN q + 1 ELSE q

\* the letter grade and the color of a score
Grade(score) ==
    IF score >= 80 THEN <<"A", "2ECC71">>
    ELSE IF score >= 60 THEN <<"B", "27AE60">>
    ELSE IF score >= 40 THEN <<"C", "F39C12">>
    ELSE IF score >= 20 THEN <<"D", "E67E22">>
    ELSE <<"F", "E74C3C">>

\* the three sub-scores of a listing with a price
SubScores(price, listing, medians, nearby_stations) ==
    <<price_score(price, listing.neighborhood, medians),
      sqft_score(price, listing.sqft),
      subway_score(nearby_stations)>>

compute_value_score(listing, medians, nearby_stations, half_up) ==
    LET price == parse_price(listing.price)
    IN IF price = None THEN None
       ELSE LET sub == SubScores(price[1], listing, medians, nearby_stations)
                a == sub[1]
                b == sub[2]
                c == sub[3]
                score == RoundTenths(4 * a[1] * b[2] * c[2] + 3 * b[1] * a[2] * c[2]
                                        + 3 * c[1] * a[2] * b[2],
                                     a[2] * b[2] * c[2], half_up)
            IN Some([score |-> score, grade |-> Grade(score)[1],
                     color |-> Grade(score)[2]])

\* ------------------------------------------------------------------------
\* check_listing_status
\* ------------------------------------------------------------------------
NoLongerAvailable == <<"n", "o", " ", "l", "o", "n", "g", "e", "r", " ", "a", "v", "a", "i", "l", "a", "b", "l", "e">>
OffMarket == <<"o", "f", "f", " ", "m", "a", "r", "k", "e", "t">>

\* a response to the status request: a network error, or a status code with a
\* page, the page being the sequence of its text nodes
NetworkError == [error |-> TRUE, status |-> 0, page |-> <<>>]
Response(status, page) == [error |-> FALSE, status |-> status, page |-> page]

\* str.strip() for the blanks of the model's text nodes
RECURSIVE Strip(_)
Strip(str) ==
    IF Len(str) = 0 THEN str
    ELSE IF Head(str) = " " THEN Strip(Tail(str))
    ELSE IF str[Len(str)] = " " THEN Strip(SubSeq(str, 1, Len(str) - 1))
    ELSE str

\* soup.get_text(separator=" ", strip=True): the stripped text nodes that are
\* not empty, joined by a blank
RECURSIVE get_text(_)
get_text(page) ==
    IF Len(page) = 0 THEN <<>>
    ELSE LET first == Strip(Head(page))
             rest == get_text(Tail(page))
         IN IF Len(first) = 0 THEN rest
            ELSE IF Len(rest) = 0 THEN first
            ELSE first \o <<" ">> \o rest

\* ScraperSession.fetch_with_status: (soup, status), soup None from 400 on
fetch_with_status(response) ==
    IF response.error THEN <<None, None>>
    ELSE IF response.status >= 400 THEN <<None, Some(response.status)>>
    ELSE <<Some(response.page), Some(response.status)>>

\* variant: the page text is searched as it is, without lower()
PageSaysGone_case_sensitive(soup) ==
    LET text == get_text(soup)
    IN Contains(text, NoLongerAvailable) \/ Contains(text, OffMarket)

\* the test on the content of a page
PageSaysGone(soup) ==
    LET text == Lower(get_text(soup))
    IN Contains(text, NoLongerAvailable) \/ Contains(text, OffMarket)

check_listing_status(response) ==
    LET r == fetch_with_status(response)
        soup == r[1]
        status == r[2]
    IN IF status = None THEN "unknown"
       ELSE IF status[1] = 404 THEN "gone"
       ELSE IF status[1] = 403 THEN "unknown"
       ELSE IF status[1] >= 400 THEN "unknown"
       ELSE IF soup # None /\ PageSaysGone(soup[1]) THEN "gone"
       ELSE "active"

\* ------------------------------------------------------------------------
\* State
\* ------------------------------------------------------------------------
VARIABLES
    use_mongodb,      \* MONGODB_URI is set
    webhook_url,      \* DISCORD_WEBHOOK_URL is set
    bot_token,        \* DISCORD_BOT_TOKEN is set
    geoclient_key,    \* NYC_GEOCLIENT_KEY is set
    users,            \* user_preferences collection: user id -> preferences
    search_no_fee,    \* config["search"]["no_fee"] is set
    webhook_fails,    \* urls whose webhook POST fails ("" stands for the summary)
    geo_service,      \* the answers the geo service can give
    site_depth,       \* the listing site of the run: "shallow", "deep" or "quiet"
    status_service,   \* the answers the status check of a listing can give
    gone_listings,    \* urls whose page is gone for good: their status check
                      \* answers "gone" whenever it is made
    fetched,          \* the answers to the page fetches of each area scraped (kept
                      \* only by the specification that slices scrape_neighborhood)
    digests,          \* daily-digest invocations so far
    digest_log,       \* sends attempted by the daily-digest invocations, in order
    fn_input,         \* the arguments of a function applied on its own
    fn_output,        \* its result, None before it has been applied
    store,            \* persisted tracked listings: url -> entry
    store_list,       \* urls of a seen_listings.json still in the old list format
    notification_log, \* notification_log collection
    now,              \* the clock, in days
    runs,             \* scrape-and-notify runs started so far
    pc,               \* position of the current run
    neighborhoods,    \* run_scraper: the areas to scrape, sorted
    area_idx,         \* run_scraper: index of the next area to scrape
    raw_listings,     \* scrape_neighborhood: the records of the pages fetched (kept
                      \* only by the specification that slices scrape_neighborhood)
    listings,         \* run_scraper: accepted listings of the area, not yet processed
    seen,             \* run_scraper: working copy of the tracked listings
    is_first_run,     \* run_scraper
    new_listings,     \* run_scraper
    price_drops,      \* run_scraper
    removed,          \* run_scraper: count returned by cleanup_stale_listings
    notifs,           \* sends attempted by the current run, in order
    calls,            \* status checks and geo lookups made by the current run
    queries,          \* search URLs built by the current run, in order
    dropped,          \* urls whose record was removed and not created again since
    fanouts           \* send_personalized_notifications of two processes at once:
                      \* per process its position in the loop and the DMs it sent

vars == <<use_mongodb, webhook_url, bot_token, geoclient_key, users, search_no_fee,
          webhook_fails, geo_service, site_depth, status_service, gone_listings,
          fetched, digests,
          digest_log, fn_input, fn_output,
          store, store_list, notification_log, now, runs, pc, neighborhoods, area_idx,
          raw_listings, listings, seen, is_first_run, new_listings, price_drops, removed,
          notifs, calls, queries, dropped, fanouts>>

env == <<use_mongodb, webhook_url, bot_token, geoclient_key, users, search_no_fee,
         webhook_fails, geo_service, site_depth, status_service, gone_listings>>
digest_vars == <<digests, digest_log>>
fn_vars == <<fn_input, fn_output>>
run_locals == <<neighborhoods, area_idx, listings, seen, is_first_run, new_listings,
                price_drops, removed, notifs, calls>>

\* the days the clock can advance by between two invocations
TickDays == {30}

User(subscribed, hoods, settings) ==
    [subscribed |-> subscribed,
     filters |-> [DEFAULT_FILTERS EXCEPT !.neighborhoods = hoods],
     notification_settings |-> settings]

\* the subscribers the model starts with
UserChoices ==
    {User(TRUE, {}, DEFAULT_NOTIFICATION_SETTINGS),
     User(TRUE, {"kips-bay"}, DEFAULT_NOTIFICATION_SETTINGS),
     User(FALSE, {}, DEFAULT_NOTIFICATION_SETTINGS)}

\* urls tracked before the first run of the model, by a store in the old format
LegacyChoices == {{}, {"u2"}}

\* the entry load_seen and migrate_to_mongodb make of a url of the old list format
LegacyEntry(t) == [first_seen |-> t]

Init ==
    /\ use_mongodb \in BOOLEAN
    /\ webhook_url \in BOOLEAN
    /\ bot_token \in BOOLEAN
    /\ webhook_fails = {}
    /\ geo_service = GeoAnswers
    /\ site_depth = "shallow"
    /\ status_service = StatusAnswers
    /\ gone_listings = {}
    /\ fanouts = <<>>
    /\ fetched = <<>>
    /\ digests = 0
    /\ digest_log = <<>>
    /\ fn_input = None
    /\ fn_output = None
    /\ geoclient_key \in BOOLEAN
    /\ search_no_fee = FALSE
    /\ users \in IF use_mongodb THEN [Users -> UserChoices] ELSE {EmptyDict}
    /\ \E legacy \in LegacyChoices :
          IF use_mongodb
          THEN store = [u \in legacy |-> LegacyEntry(0)] /\ store_list = {}
          ELSE store = EmptyDict /\ store_list = legacy
    /\ notification_log = {}
    /\ now = 0
    /\ runs = 0
    /\ pc = "idle"
    /\ neighborhoods = <<>>
    /\ area_idx = 1
    /\ raw_listings = <<>>
    /\ queries = RunQueries(neighborhoods, area_idx - 1, search_no_fee)
    /\ listings = <<>>
    /\ seen = EmptyDict
    /\ is_first_run = FALSE
    /\ new_listings = <<>>
    /\ price_drops = <<>>
    /\ removed = 0
    /\ notifs = <<>>
    /\ calls = {}
    /\ dropped = {}

\* ------------------------------------------------------------------------
\* Persistence
\* ------------------------------------------------------------------------
load_seen_from_mongo(col) == col

\* every entry of the working copy is upserted with $set
save_seen_to_mongo(col, seen_) ==
    [u \in DOMAIN col \cup DOMAIN seen_ |->
        IF u \in DOMAIN seen_
        THEN IF u \in DOMAIN col
             THEN [k \in DOMAIN col[u] \cup DOMAIN seen_[u] |->
                      IF k \in DOMAIN seen_[u] THEN seen_[u][k] ELSE col[u][k]]
             ELSE seen_[u]
        ELSE col[u]]

load_seen(mongo, col, old_list, t) ==
    IF mongo THEN load_seen_from_mongo(col)
    ELSE IF old_list # {} THEN [u \in old_list |-> LegacyEntry(t)]
    ELSE col

save_seen(mongo, col, seen_) ==
    IF mongo THEN save_seen_to_mongo(col, seen_) ELSE seen_

\* sorted(neighborhoods) as a sequence
RECURSIVE Sorted(_)
Sorted(S) ==
    IF S = {} THEN <<>>
    ELSE LET first == CHOOSE x \in S : \A y \in S : SlugRank(x) <= SlugRank(y)
         IN <<first>> \o Sorted(S \ {first})

get_neighborhoods_to_scrape(mongo, userdb) ==
    Sorted(ConfigNeighborhoods
           \cup (IF mongo
                 THEN UNION {userdb[u].filters.neighborhoods :
                                u \in get_all_subscribed_users(userdb)}
                 ELSE {}))

\* ------------------------------------------------------------------------
\* run_scraper
\* ------------------------------------------------------------------------
Kinds == {"new_listing", "price_drop"}

\* where the run continues once the listings of an area are used up
AfterArea(rest, next_idx, areas) ==
    IF Len(rest) > 0 THEN "process"
    ELSE IF next_idx <= Len(areas) THEN "scrape"
    ELSE "summary"

\* run_scraper up to the loop over the areas: configuration, load, first-run test
StartRun ==
    /\ pc = "idle"
    /\ runs < MaxRuns
    /\ runs' = runs + 1
    /\ neighborhoods' = get_neighborhoods_to_scrape(use_mongodb, users)
    /\ seen' = load_seen(use_mongodb, store, store_list, now)
    /\ is_first_run' = (DOMAIN seen' = {})
    /\ new_listings' = <<>>
    /\ price_drops' = <<>>
    /\ removed' = 0
    /\ notifs' = <<>>
    /\ calls' = {}
    /\ area_idx' = 1
    /\ listings' = <<>>
    /\ queries' = <<>>
    /\ fetched' = <<>>
    /\ pc' = AfterArea(<<>>, 1, neighborhoods')
    /\ UNCHANGED <<env, fanouts, fn_vars, digest_vars, raw_listings, store, store_list, notification_log, now, dropped>>

\* one iteration of the loop over the areas: scrape_neighborhood
ScrapeArea ==
    /\ pc = "scrape"
    /\ \E site \in SiteAnswers(site_depth) :
          /\ listings' = scrape_neighborhood(site, neighborhoods[area_idx])
          /\ area_idx' = area_idx + 1
          /\ pc' = AfterArea(listings', area_idx', neighborhoods)
    /\ queries' = Append(queries, build_search_url(neighborhoods[area_idx], search_no_fee))
    /\ UNCHANGED <<env, fanouts, fn_vars, digest_vars, fetched, raw_listings, store, store_list, notification_log, now, runs, neighborhoods,
                   seen, is_first_run, new_listings, price_drops, removed, notifs, calls,
                   dropped>>

\* compute_days_on_market
compute_days_on_market(entry, t) ==
    IF "first_seen" \in DOMAIN entry THEN Some(t - entry.first_seen) ELSE None

\* variant: the event carries the whole tracked record
drop_listing_whole_record(entry, url) ==
    DictSet(DictSet(DictSet(entry, "address", Get(entry, "address", "Unknown")),
                    "url", url),
            "neighborhood", Get(entry, "neighborhood", "N/A"))

\* the listing-like dict of a price-drop event
drop_listing(entry, url) ==
    [address |-> Get(entry, "address", "Unknown"),
     url |-> url,
     neighborhood |-> Get(entry, "neighborhood", "N/A")]

\* the branch "url in seen" of the loop over the listings of an area
ObserveSeen(listing) ==
    LET url == listing.url
        current_price == parse_price(listing.price)
        entry0 == MarkScraped(seen[url], now)
        lookup == geoclient_key /\ "latitude" \notin DOMAIN entry0
    IN \E answer \in (IF lookup THEN geo_service \ {Unreadable} ELSE {None}) :
          LET geo == IF lookup
                     THEN geoclient_lookup(Get(entry0, "address", ""), answer)
                     ELSE None
              entry1 == IF lookup THEN Backfilled(entry0, geo) ELSE entry0
              change == IF current_price # None /\ ~is_first_run
                        THEN detect_price_change(entry1, current_price)
                        ELSE None
          IN /\ calls' = IF lookup THEN calls \cup {GeoCall(url, TRUE, geo)} ELSE calls
             /\ IF lookup /\ OutsideBounds(geo)
                THEN /\ seen' = DictDel(seen, url)
                     /\ UNCHANGED <<price_drops, notifs>>
                ELSE IF change # None
                THEN /\ notifs' = IF webhook_url
                                  THEN Append(notifs, Webhook("price_drop", url, url \notin webhook_fails))
                                  ELSE notifs
                     /\ price_drops' =
                           Append(price_drops,
                                  [listing |-> drop_listing(entry1, url), price_change |-> change[1],
                                   days_on_market |-> compute_days_on_market(entry1, now)])
                     /\ seen' = DictSet(seen, url,
                                        update_price_history(entry1, current_price[1], now))
                ELSE /\ seen' = DictSet(seen, url, entry1)
                     /\ UNCHANGED <<price_drops, notifs>>
             /\ UNCHANGED new_listings

\* variant: the first run broadcasts every listing too
BroadcastsNew_first_run_too(first_run, webhook) == webhook

\* the condition of the individual broadcast of a new listing
BroadcastsNew(first_run, webhook) == ~first_run /\ webhook

\* variant: the entry of a new listing is not put into the working copy
TrackNew_not(seen_, url, seen_entry) == seen_

\* seen[url] = seen_entry
TrackNew(seen_, url, seen_entry) == DictSet(seen_, url, seen_entry)

\* the branch of a url that is not in seen
ObserveNew(listing) ==
    LET url == listing.url
    IN \E answer \in (IF geoclient_key THEN geo_service ELSE {None}) :
          LET geo == IF geoclient_key
                     THEN Caught(geoclient_lookup(listing.address, answer))
                     ELSE None
              longitude == IF geo # None THEN geo[1].longitude ELSE None
              seen_entry == [first_seen |-> now, last_scraped |-> now,
                             address |-> listing.address, price |-> listing.price,
                             neighborhood |-> Get(listing, "neighborhood", "")]
              enriched == IF HasCoordinates(geo) THEN Backfilled(listing, geo) ELSE listing
          IN /\ calls' = IF geoclient_key THEN calls \cup {GeoCall(url, FALSE, geo)}
                         ELSE calls
             /\ IF ~is_within_geo_bounds(longitude)
                THEN UNCHANGED <<seen, new_listings, notifs>>
                ELSE /\ new_listings' = Append(new_listings, enriched)
                     /\ seen' = TrackNew(seen, url, Backfilled(seen_entry, geo))
                     /\ notifs' = IF BroadcastsNew(is_first_run, webhook_url)
                                  THEN Append(notifs, Webhook("new_listing", url, url \notin webhook_fails))
                                  ELSE notifs
             /\ UNCHANGED price_drops

\* the lazy geo backfill of a tracked entry gets a response it cannot read
BackfillRaises(entry, key) ==
    /\ key
    /\ "latitude" \notin DOMAIN entry
    /\ geoclient_lookup(Get(entry, "address", ""), Unreadable) = Unreadable
    /\ Unreadable \in geo_service

\* one iteration of the loop over the listings of an area; an exception that
\* leaves the backfill of a tracked entry ends the process
ProcessListing ==
    /\ pc = "process"
    /\ \E raised \in (IF Head(listings).url \in DOMAIN seen
                          /\ BackfillRaises(seen[Head(listings).url], geoclient_key)
                       THEN BOOLEAN ELSE {FALSE}) :
          IF raised
          THEN /\ pc' = "crashed"
               /\ UNCHANGED <<listings, seen, new_listings, price_drops, notifs, calls,
                              dropped>>
          ELSE /\ IF Head(listings).url \in DOMAIN seen
                  THEN ObserveSeen(Head(listings))
                  ELSE ObserveNew(Head(listings))
               /\ listings' = Tail(listings)
               /\ dropped' = (dropped \cup (DOMAIN seen \ DOMAIN seen'))
                                 \ (DOMAIN seen' \ DOMAIN seen)
               /\ pc' = AfterArea(listings', area_idx, neighborhoods)
    /\ UNCHANGED <<env, fanouts, fn_vars, digest_vars, fetched, raw_listings, queries, store, store_list, notification_log, now, runs, neighborhoods,
                   area_idx, is_first_run, removed>>

\* the first-run summary
SendSummary ==
    /\ pc = "summary"
    /\ IF is_first_run /\ webhook_url /\ Len(new_listings) > 0
       THEN notifs' = Append(notifs, Webhook("summary", "", "" \notin webhook_fails))
       ELSE UNCHANGED notifs
    /\ pc' = "personal"
    /\ UNCHANGED <<env, fanouts, fn_vars, digest_vars, fetched, raw_listings, queries, store, store_list, notification_log, now, runs, neighborhoods,
                   area_idx, listings, seen, is_first_run, new_listings, price_drops,
                   removed, calls, dropped>>

\* the personalized DMs
SendPersonalized ==
    /\ pc = "personal"
    /\ IF ~is_first_run /\ bot_token /\ use_mongodb
       THEN \E dm_ok \in [Users \X URLS \X Kinds -> BOOLEAN] :
               LET r == send_personalized_notifications(new_listings, price_drops,
                                                        notification_log, users, dm_ok, now)
               IN /\ notification_log' = r.log
                  /\ notifs' = notifs \o r.sent
       ELSE UNCHANGED <<notification_log, notifs>>
    /\ pc' = "cleanup"
    /\ UNCHANGED <<env, fanouts, fn_vars, digest_vars, fetched, raw_listings, queries, store, store_list, now, runs, neighborhoods, area_idx, listings,
                   seen, is_first_run, new_listings, price_drops, removed, calls, dropped>>

\* the staleness sweep; an exception that leaves the backfill of one of the
\* records it checks ends the process
Cleanup ==
    /\ pc = "cleanup"
    /\ \E order \in StaleOrders(seen, now),
          geo_of \in [StaleUrls(seen, now) -> geo_service],
          answer_of \in [StaleUrls(seen, now) -> status_service] :
          LET status_of == [u \in StaleUrls(seen, now) |->
                               IF u \in gone_listings THEN "gone" ELSE answer_of[u]]
          IN IF \E i \in 1..Min(Len(order), max_checks) :
                   /\ BackfillRaises(seen[order[i]], geoclient_key)
                   /\ geo_of[order[i]] = Unreadable
             THEN /\ pc' = "crashed"
                  /\ UNCHANGED <<seen, removed, calls, dropped>>
             ELSE LET r == cleanup_stale_listings(order, seen, calls, geoclient_key,
                                                  geo_of, status_of, now)
                  IN /\ seen' = r.seen
                     /\ removed' = r.removed
                     /\ calls' = r.calls
                     /\ dropped' = dropped \cup (DOMAIN seen \ DOMAIN r.seen)
                     /\ pc' = "save"
    /\ UNCHANGED <<env, fanouts, fn_vars, digest_vars, fetched, raw_listings, queries, store, store_list, notification_log, now, runs, neighborhoods,
                   area_idx, listings, is_first_run, new_listings, price_drops, notifs>>

\* save_seen, the last step of the run
Save ==
    /\ pc = "save"
    /\ store' = save_seen(use_mongodb, store, seen)
    /\ store_list' = IF use_mongodb THEN store_list ELSE {}
    /\ pc' = "done"
    /\ UNCHANGED <<env, fanouts, fn_vars, digest_vars, fetched, raw_listings, queries, notification_log, now, runs, run_locals, dropped>>

\* the process exits: nothing but the stores outlives it
Exit ==
    /\ pc \in {"done", "crashed"}
    /\ pc' = "idle"
    /\ neighborhoods' = <<>>
    /\ area_idx' = 1
    /\ listings' = <<>>
    /\ seen' = EmptyDict
    /\ is_first_run' = FALSE
    /\ new_listings' = <<>>
    /\ price_drops' = <<>>
    /\ removed' = 0
    /\ notifs' = <<>>
    /\ calls' = {}
    /\ queries' = <<>>
    /\ fetched' = <<>>
    /\ UNCHANGED <<env, fanouts, fn_vars, digest_vars, raw_listings, store, store_list, notification_log, now, runs, dropped>>

\* ------------------------------------------------------------------------
\* Environment
\* ------------------------------------------------------------------------
\* time passes between two invocations
Tick ==
    /\ pc = "idle"
    /\ \E d \in TickDays : now + d <= MaxTime /\ now' = now + d
    /\ UNCHANGED <<env, fanouts, fn_vars, digest_vars, fetched, raw_listings, queries, store, store_list, notification_log, runs, pc, run_locals,
                   dropped>>

Expired(e, t) == t - e.sent_at >= RetentionDays

\* the TTL index on sent_at deletes the entries older than the retention window
Purge ==
    /\ \E e \in notification_log : Expired(e, now)
    /\ notification_log' = {e \in notification_log : ~Expired(e, now)}
    /\ UNCHANGED <<env, fanouts, fn_vars, digest_vars, fetched, raw_listings, queries, store, store_list, now, runs, pc, run_locals, dropped>>

Next ==
    \/ StartRun
    \/ ScrapeArea
    \/ ProcessListing
    \/ SendSummary
    \/ SendPersonalized
    \/ Cleanup
    \/ Save
    \/ Exit
    \/ Tick
    \/ Purge

Spec == Init /\ [][Next]_vars

\* ------------------------------------------------------------------------
\* The personalized fan-out on its own: send_personalized_notifications is
\* handed the events of a non-first run, for subscribers with any notification
\* settings and a notification log that holds entries of earlier runs
\* ------------------------------------------------------------------------
\* a tracked record as run_scraper creates it
TrackedEntry(listing, t) ==
    [first_seen |-> t, last_scraped |-> t, address |-> listing.address,
     price |-> listing.price, neighborhood |-> listing.neighborhood]

\* a price-drop event as run_scraper collects it
DropEvent(listing, old_price, new_price, t) ==
    [listing |-> [address |-> listing.address, url |-> listing.url,
                  neighborhood |-> listing.neighborhood],
     price_change |-> [old_price |-> old_price, new_price |-> new_price,
                       savings |-> old_price - new_price,
                       pct |-> RoundPct(old_price - new_price, old_price)],
     days_on_market |-> Some(t)]

EventUrls(events) == {events[i].url : i \in 1..Len(events)}

\* the store a non-first run loaded before it collected the events: not empty,
\* holding the records whose price dropped at their old price, and holding the
\* url of a new listing only if the run removed that record before (all urls new)
LoadedStore(new, drops) ==
    LET fallen == EventUrls(DropListings(drops))
        old == (URLS \ EventUrls(new)) \cup fallen
        drop_of(u) == CHOOSE d \in Range(drops) : d.listing.url = u
    IN [u \in (IF old = {} THEN URLS ELSE old) |->
           IF u \in fallen
           THEN [first_seen |-> 0, address |-> drop_of(u).listing.address,
                 price |-> FormatPrice(drop_of(u).price_change.old_price),
                 neighborhood |-> drop_of(u).listing.neighborhood]
           ELSE LegacyEntry(0)]

\* the working copy of that run when it reaches the fan-out
WorkingCopy(loaded, new, drops, t) ==
    LET fallen == EventUrls(DropListings(drops))
        drop_of(u) == CHOOSE d \in Range(drops) : d.listing.url = u
    IN [u \in URLS |->
           IF u \in fallen
           THEN update_price_history(MarkScraped(loaded[u], t),
                                     drop_of(u).price_change.new_price, t)
           ELSE IF u \in EventUrls(new)
           THEN TrackedEntry(CHOOSE l \in Range(new) : l.url = u, t)
           ELSE MarkScraped(LegacyEntry(0), t)]

FanoutNew ==
    LET l1 == Listing("u1", P3000, "Kips Bay", OneBed)
        l2 == Listing("u2", NA, "Murray Hill", Studio)
    IN {<<>>, <<l1>>, <<l2>>, <<l1, l2>>, <<l2, l1>>}

FanoutDrops ==
    {<<>>, <<DropEvent(Listing("u1", P2800, "Kips Bay", OneBed), 3000, 2800, 0)>>}

FanoutSettings ==
    {[new_listings |-> n, price_drops |-> d, daily_digest |-> TRUE] : n, d \in BOOLEAN}

FanoutUsers ==
    {User(sub, hoods, settings) :
        sub \in BOOLEAN, hoods \in {{}, {"kips-bay"}}, settings \in FanoutSettings}

FanoutLogs ==
    {{}} \cup {log_notification({}, "a", "u1", K, ok, 0) : K \in Kinds, ok \in BOOLEAN}

InitFanout ==
    /\ use_mongodb = TRUE
    /\ webhook_url = FALSE
    /\ bot_token = TRUE
    /\ webhook_fails = {}
    /\ geo_service = GeoAnswers
    /\ site_depth = "shallow"
    /\ status_service = StatusAnswers
    /\ gone_listings = {}
    /\ fanouts = <<>>
    /\ fetched = <<>>
    /\ digests = 0
    /\ digest_log = <<>>
    /\ fn_input = None
    /\ fn_output = None
    /\ geoclient_key = TRUE
    /\ search_no_fee = FALSE
    /\ users \in [Users -> FanoutUsers]
    /\ store_list = {}
    /\ notification_log \in FanoutLogs
    /\ now = 0
    /\ runs = 1
    /\ pc = "personal"
    /\ neighborhoods = get_neighborhoods_to_scrape(use_mongodb, users)
    /\ area_idx = Len(neighborhoods) + 1
    /\ raw_listings = <<>>
    /\ queries = RunQueries(neighborhoods, area_idx - 1, search_no_fee)
    /\ listings = <<>>
    /\ is_first_run = FALSE
    /\ new_listings \in FanoutNew
    /\ price_drops \in FanoutDrops
    /\ store = LoadedStore(new_listings, price_drops)
    /\ seen = WorkingCopy(store, new_listings, price_drops, now)
    /\ removed = 0
    /\ notifs = <<>>
    /\ calls = {}
    /\ dropped = {}

SpecFanout == InitFanout /\ [][SendPersonalized]_vars

\* ------------------------------------------------------------------------
\* The scrape of the areas on its own, scrape_neighborhood sliced in two: the
\* fetch of the pages, then the filter pipeline over raw_listings
\* ------------------------------------------------------------------------
\* scrape_neighborhood up to the end of the loop over the pages
FetchPages ==
    /\ pc = "scrape"
    /\ \E site \in SiteAnswers(site_depth) :
          /\ IF ~site.pages[1].ok
             THEN /\ raw_listings' = <<>>
                  /\ listings' = <<>>
                  /\ area_idx' = area_idx + 1
                  /\ pc' = AfterArea(listings', area_idx', neighborhoods)
             ELSE /\ raw_listings' = RawListings(site)
                  /\ pc' = "filter"
                  /\ UNCHANGED <<listings, area_idx>>
          /\ fetched' = Append(fetched, FetchedPages(site))
    /\ queries' = Append(queries, build_search_url(neighborhoods[area_idx], search_no_fee))
    /\ UNCHANGED <<env, fanouts, fn_vars, digest_vars, store, store_list, notification_log, now, runs, neighborhoods,
                   seen, is_first_run, new_listings, price_drops, removed, notifs, calls,
                   dropped>>

\* scrape_neighborhood from the deduplication to the return
FilterRaw ==
    /\ pc = "filter"
    /\ listings' = FilterListings(raw_listings, neighborhoods[area_idx])
    /\ area_idx' = area_idx + 1
    /\ pc' = AfterArea(listings', area_idx', neighborhoods)
    /\ UNCHANGED <<env, fanouts, fn_vars, digest_vars, fetched, raw_listings, queries, store, store_list, notification_log, now, runs,
                   neighborhoods, seen, is_first_run, new_listings, price_drops, removed,
                   notifs, calls, dropped>>

\* the subscribers of the sliced scrape: an area with an alias set, an area
\* without one, no area, not subscribed
FilterUsers ==
    {User(TRUE, {}, DEFAULT_NOTIFICATION_SETTINGS),
     User(TRUE, {"kips-bay"}, DEFAULT_NOTIFICATION_SETTINGS),
     User(TRUE, {"midtown"}, DEFAULT_NOTIFICATION_SETTINGS),
     User(FALSE, {"midtown"}, DEFAULT_NOTIFICATION_SETTINGS)}

InitFilter ==
    /\ use_mongodb \in BOOLEAN
    /\ webhook_url = FALSE
    /\ bot_token = FALSE
    /\ webhook_fails = {}
    /\ geo_service = GeoAnswers
    /\ site_depth = "shallow"
    /\ status_service = StatusAnswers
    /\ gone_listings = {}
    /\ fanouts = <<>>
    /\ fetched = <<>>
    /\ digests = 0
    /\ digest_log = <<>>
    /\ fn_input = None
    /\ fn_output = None
    /\ geoclient_key = FALSE
    /\ search_no_fee = FALSE
    /\ users \in IF use_mongodb THEN [Users -> FilterUsers] ELSE {EmptyDict}
    /\ store = EmptyDict
    /\ store_list = {}
    /\ notification_log = {}
    /\ now = 0
    /\ runs = 0
    /\ pc = "idle"
    /\ neighborhoods = <<>>
    /\ area_idx = 1
    /\ raw_listings = <<>>
    /\ queries = RunQueries(neighborhoods, area_idx - 1, search_no_fee)
    /\ listings = <<>>
    /\ seen = EmptyDict
    /\ is_first_run = FALSE
    /\ new_listings = <<>>
    /\ price_drops = <<>>
    /\ removed = 0
    /\ notifs = <<>>
    /\ calls = {}
    /\ dropped = {}

NextFilter ==
    \/ StartRun
    \/ FetchPages
    \/ FilterRaw

SpecFilter == InitFilter /\ [][NextFilter]_vars

\* ------------------------------------------------------------------------
\* The re-observation of a tracked record on its own: the loop body of
\* run_scraper is handed a card of a tracked url, with any stored and any
\* observed price text
\* ------------------------------------------------------------------------
\* the price texts a card can show and a record can hold
DetectPrices == {P3000, P2800, P9000, P0, NA, <<>>}

InitDetect ==
    /\ use_mongodb = FALSE
    /\ webhook_url \in BOOLEAN
    /\ bot_token = FALSE
    /\ webhook_fails = {}
    /\ geo_service = GeoAnswers
    /\ site_depth = "shallow"
    /\ status_service = StatusAnswers
    /\ gone_listings = {}
    /\ fanouts = <<>>
    /\ fetched = <<>>
    /\ digests = 0
    /\ digest_log = <<>>
    /\ fn_input = None
    /\ fn_output = None
    /\ geoclient_key \in BOOLEAN
    /\ search_no_fee = FALSE
    /\ users = EmptyDict
    /\ is_first_run \in BOOLEAN
    /\ \E stored \in DetectPrices :
          seen = [u \in {"u1"} |->
                     TrackedEntry(Listing("u1", stored, "Kips Bay", OneBed), 0)]
    /\ store = IF is_first_run THEN EmptyDict ELSE seen
    /\ store_list = {}
    /\ notification_log = {}
    /\ now = 0
    /\ runs = 1
    /\ pc = "process"
    /\ neighborhoods = get_neighborhoods_to_scrape(use_mongodb, users)
    /\ area_idx = Len(neighborhoods) + 1
    /\ raw_listings = <<>>
    /\ queries = RunQueries(neighborhoods, area_idx - 1, search_no_fee)
    /\ \E observed \in DetectPrices :
          listings = <<Listing("u1", observed, "Kips Bay", OneBed)>>
    /\ new_listings = <<>>
    /\ price_drops = <<>>
    /\ removed = 0
    /\ notifs = <<>>
    /\ calls = {}
    /\ dropped = {}

SpecDetect == InitDetect /\ [][ProcessListing]_vars

\* ------------------------------------------------------------------------
\* The match predicate on its own: the fan-out of a non-first run is handed one
\* event, for one subscriber with any filters, all toggles on and an empty
\* notification log, so that a DM is attempted exactly when
\* listing_matches_user holds
\* ------------------------------------------------------------------------
\* a new listing with the coordinates the geo lookup gave it
WithCoordinates(listing, lon) ==
    IF lon = None THEN listing
    ELSE DictSet(DictSet(listing, "latitude", 40), "longitude", lon[1])

MatchListings ==
    {WithCoordinates(Listing("u1", price, hood, beds), lon) :
        price \in {P3000, P2800, NA},
        hood \in {"Kips Bay", "Midtown", "Greenpoint", ""},
        beds \in {OneBed, Studio, NA, BedsOnly},
        lon \in {None, Some(1), Some(2)}}

\* the values the settings panel stores
MatchFilters ==
    {[neighborhoods |-> hoods, min_price |-> lo, max_price |-> hi, bed_rooms |-> beds,
      no_fee |-> FALSE, geo_bounds |-> bounds] :
        hoods \in {{}, {"murray-hill"}, {"midtown"}, {"kips-bay", "midtown"}},
        lo \in {0, 2900},
        hi \in {0, 2900, 5000},
        beds \in {{}, {StudioWord}, {<<"1">>}},
        bounds \in {None, Some([west_longitude |-> 1, east_longitude |-> 1])}}

\* the events of the run: one new listing, or one price drop
MatchEvents ==
    {[new |-> <<l>>, drops |-> <<>>] : l \in MatchListings}
    \cup {[new |-> <<>>,
           drops |-> <<DropEvent(Listing("u1", P2800, "Kips Bay", OneBed), 3000, 2800, 0)>>]}

InitMatch ==
    /\ use_mongodb = TRUE
    /\ webhook_url = FALSE
    /\ bot_token = TRUE
    /\ webhook_fails = {}
    /\ geo_service = GeoAnswers
    /\ site_depth = "shallow"
    /\ status_service = StatusAnswers
    /\ gone_listings = {}
    /\ fanouts = <<>>
    /\ fetched = <<>>
    /\ digests = 0
    /\ digest_log = <<>>
    /\ fn_input = None
    /\ fn_output = None
    /\ geoclient_key = TRUE
    /\ search_no_fee = FALSE
    /\ \E filters \in MatchFilters :
          users = [u \in Users |->
                      [subscribed |-> TRUE, filters |-> filters,
                       notification_settings |-> DEFAULT_NOTIFICATION_SETTINGS]]
    /\ store_list = {}
    /\ notification_log = {}
    /\ now = 0
    /\ runs = 1
    /\ pc = "personal"
    /\ neighborhoods = get_neighborhoods_to_scrape(use_mongodb, users)
    /\ area_idx = Len(neighborhoods) + 1
    /\ raw_listings = <<>>
    /\ queries = RunQueries(neighborhoods, area_idx - 1, search_no_fee)
    /\ listings = <<>>
    /\ is_first_run = FALSE
    /\ \E ev \in MatchEvents :
          /\ new_listings = ev.new
          /\ price_drops = ev.drops
    /\ store = LoadedStore(new_listings, price_drops)
    /\ seen = WorkingCopy(store, new_listings, price_drops, now)
    /\ removed = 0
    /\ notifs = <<>>
    /\ calls = {}
    /\ dropped = {}

SpecMatch == InitMatch /\ [][SendPersonalized]_vars

\* ------------------------------------------------------------------------
\* A non-first run up to its fan-out, for any no-fee setting of the search
\* configuration and of the subscriber
\* ------------------------------------------------------------------------
NoFeeUsers ==
    {[subscribed |-> TRUE,
      filters |-> [DEFAULT_FILTERS EXCEPT !.no_fee = flag, !.neighborhoods = hoods],
      notification_settings |-> DEFAULT_NOTIFICATION_SETTINGS] :
        flag \in BOOLEAN, hoods \in {{}, {"kips-bay"}}}

InitNoFee ==
    /\ use_mongodb = TRUE
    /\ webhook_url = FALSE
    /\ bot_token = TRUE
    /\ webhook_fails = {}
    /\ geo_service = GeoAnswers
    /\ site_depth = "shallow"
    /\ status_service = StatusAnswers
    /\ gone_listings = {}
    /\ fanouts = <<>>
    /\ fetched = <<>>
    /\ digests = 0
    /\ digest_log = <<>>
    /\ fn_input = None
    /\ fn_output = None
    /\ geoclient_key = FALSE
    /\ search_no_fee \in BOOLEAN
    /\ users \in [Users -> NoFeeUsers]
    /\ store = [u \in {"u2"} |-> LegacyEntry(0)]
    /\ store_list = {}
    /\ notification_log = {}
    /\ now = 0
    /\ runs = 0
    /\ pc = "idle"
    /\ neighborhoods = <<>>
    /\ area_idx = 1
    /\ raw_listings = <<>>
    /\ queries = <<>>
    /\ listings = <<>>
    /\ seen = EmptyDict
    /\ is_first_run = FALSE
    /\ new_listings = <<>>
    /\ price_drops = <<>>
    /\ removed = 0
    /\ notifs = <<>>
    /\ calls = {}
    /\ dropped = {}

NextNoFee ==
    \/ StartRun
    \/ ScrapeArea
    \/ ProcessListing
    \/ SendSummary
    \/ SendPersonalized

SpecNoFee == InitNoFee /\ [][NextNoFee]_vars

\* ------------------------------------------------------------------------
\* A run whose sends can fail: the webhook POST of any listing and of the
\* summary, and any DM
\* ------------------------------------------------------------------------
\* a record tracked by an earlier run for a listing the site no longer shows
OffSite == [u \in {"u0"} |-> TrackedEntry(Listing("u0", P3000, "Kips Bay", OneBed), 0)]

InitSends ==
    /\ use_mongodb \in BOOLEAN
    /\ webhook_url = TRUE
    /\ bot_token = TRUE
    /\ geoclient_key = FALSE
    /\ search_no_fee = FALSE
    /\ webhook_fails \in SUBSET (URLS \cup {""})
    /\ geo_service = GeoAnswers
    /\ site_depth = "shallow"
    /\ status_service = StatusAnswers
    /\ gone_listings = {}
    /\ fanouts = <<>>
    /\ fetched = <<>>
    /\ digests = 0
    /\ digest_log = <<>>
    /\ fn_input = None
    /\ fn_output = None
    /\ users \in IF use_mongodb
                 THEN [Users -> {User(TRUE, {}, DEFAULT_NOTIFICATION_SETTINGS)}]
                 ELSE {EmptyDict}
    /\ store \in {EmptyDict, OffSite}
    /\ store_list = {}
    /\ notification_log = {}
    /\ now = 0
    /\ runs = MaxRuns - 1
    /\ pc = "idle"
    /\ neighborhoods = <<>>
    /\ area_idx = 1
    /\ raw_listings = <<>>
    /\ queries = <<>>
    /\ listings = <<>>
    /\ seen = EmptyDict
    /\ is_first_run = FALSE
    /\ new_listings = <<>>
    /\ price_drops = <<>>
    /\ removed = 0
    /\ notifs = <<>>
    /\ calls = {}
    /\ dropped = {}

\* run_scraper is sequential and every request it makes has a timeout: a run
\* that has started takes its next step
RunStep ==
    ScrapeArea \/ ProcessListing \/ SendSummary \/ SendPersonalized \/ Cleanup \/ Save

SpecSends == InitSends /\ [][Next]_vars /\ WF_vars(RunStep)

\* ------------------------------------------------------------------------
\* A run with a geo key whose lookups can fail: no answer, or a response that
\* geoclient_lookup cannot read
\* ------------------------------------------------------------------------
\* the records an earlier run without a geo key left: none for the listings the
\* site shows, or one for the first of them
GeoStores ==
    {OffSite,
     [u \in {"u1"} |-> TrackedEntry(Listing("u1", P3000, "Kips Bay", OneBed), 0)]}

InitGeo ==
    /\ use_mongodb = FALSE
    /\ webhook_url = TRUE
    /\ bot_token = FALSE
    /\ geoclient_key = TRUE
    /\ search_no_fee = FALSE
    /\ webhook_fails = {}
    /\ geo_service = GeoAnswers \cup {Unreadable}
    /\ site_depth = "shallow"
    /\ status_service = StatusAnswers
    /\ gone_listings = {}
    /\ fanouts = <<>>
    /\ fetched = <<>>
    /\ digests = 0
    /\ digest_log = <<>>
    /\ fn_input = None
    /\ fn_output = None
    /\ users = EmptyDict
    /\ store \in GeoStores
    /\ store_list = {}
    /\ notification_log = {}
    /\ now = 0
    /\ runs = MaxRuns - 1
    /\ pc = "idle"
    /\ neighborhoods = <<>>
    /\ area_idx = 1
    /\ raw_listings = <<>>
    /\ queries = <<>>
    /\ listings = <<>>
    /\ seen = EmptyDict
    /\ is_first_run = FALSE
    /\ new_listings = <<>>
    /\ price_drops = <<>>
    /\ removed = 0
    /\ notifs = <<>>
    /\ calls = {}
    /\ dropped = {}

\* the run and the clock; without subscribers the notification log stays empty
NextGeo ==
    \/ StartRun
    \/ ScrapeArea
    \/ ProcessListing
    \/ SendSummary
    \/ SendPersonalized
    \/ Cleanup
    \/ Save
    \/ Exit
    \/ Tick

SpecGeo == InitGeo /\ [][NextGeo]_vars

\* ------------------------------------------------------------------------
\* A run over two areas of a site with many pages, any of which can fail to
\* load, with scrape_neighborhood sliced as above
\* ------------------------------------------------------------------------
InitPages ==
    /\ use_mongodb = TRUE
    /\ webhook_url = TRUE
    /\ bot_token = FALSE
    /\ geoclient_key = FALSE
    /\ search_no_fee = FALSE
    /\ webhook_fails = {}
    /\ geo_service = GeoAnswers
    /\ site_depth = "deep"
    /\ status_service = StatusAnswers
    /\ gone_listings = {}
    /\ fanouts = <<>>
    /\ fetched = <<>>
    /\ digests = 0
    /\ digest_log = <<>>
    /\ fn_input = None
    /\ fn_output = None
    /\ users = [u \in Users |-> User(TRUE, {"kips-bay"}, DEFAULT_NOTIFICATION_SETTINGS)]
    /\ store \in {EmptyDict, OffSite}
    /\ store_list = {}
    /\ notification_log = {}
    /\ now = MaxTime
    /\ runs = MaxRuns - 1
    /\ pc = "idle"
    /\ neighborhoods = <<>>
    /\ area_idx = 1
    /\ raw_listings = <<>>
    /\ queries = <<>>
    /\ listings = <<>>
    /\ seen = EmptyDict
    /\ is_first_run = FALSE
    /\ new_listings = <<>>
    /\ price_drops = <<>>
    /\ removed = 0
    /\ notifs = <<>>
    /\ calls = {}
    /\ dropped = {}

\* the steps of a run whose scrape is sliced
PagesStep ==
    \/ FetchPages
    \/ FilterRaw
    \/ ProcessListing
    \/ SendSummary
    \/ SendPersonalized
    \/ Cleanup
    \/ Save

NextDeep ==
    \/ StartRun
    \/ PagesStep
    \/ Exit

\* run_scraper is sequential and every fetch has a timeout
SpecPages == InitPages /\ [][NextDeep]_vars /\ WF_vars(PagesStep)

\* ------------------------------------------------------------------------
\* run_digest: the daily digest, one invocation of the program with --digest
\* ------------------------------------------------------------------------
\* today_str, the UTC calendar day as the digest key of the notification log
DigestKey(t) == "digest-" \o ToString(t)

\* the tracked records first seen in the last 24 hours, as listings
RecentListings(seen_, t) ==
    {[url |-> u, address |-> Get(seen_[u], "address", "Unknown"),
      price |-> Get(seen_[u], "price", NA),
      neighborhood |-> Get(seen_[u], "neighborhood", "Unknown")] :
        u \in {x \in DOMAIN seen_ :
                  "first_seen" \in DOMAIN seen_[x] /\ seen_[x].first_seen >= t - 1}}

\* compute_digest_analytics, reduced to the count of tracked records
compute_digest_analytics(seen_, recent) == [total_tracked |-> Cardinality(DOMAIN seen_)]

DigestSend(chan, user_id, listings_, analytics, ok, t) ==
    [chan |-> chan, user |-> user_id, listings |-> listings_, analytics |-> analytics,
     ok |-> ok, day |-> t]

\* variant: the broadcast digest is skipped when no record is recent
SendsDigest_if_recent(webhook, recent) == webhook /\ recent # {}

\* the broadcast digest is sent whenever a webhook is configured
SendsDigest(webhook, recent) == webhook

\* variant: only a delivered digest counts as sent
DigestLogged_if_delivered(log, user_id, t) ==
    \E e \in log : /\ e.discord_user_id = user_id
                   /\ e.listing_url = DigestKey(t)
                   /\ e.notification_type = "daily_digest"
                   /\ e.success

\* the dedup check of the per-user digest
DigestLogged(log, user_id, t) ==
    was_notification_sent(log, user_id, DigestKey(t), "daily_digest")

\* the body of the loop over the subscribed users
DigestUser(user_id, user, seen_, recent, acc, dm_ok, t) ==
    IF ~user.notification_settings.daily_digest THEN acc
    ELSE LET user_recent == {l \in recent : listing_matches_user(l, user)}
             user_analytics == compute_digest_analytics(seen_, user_recent)
         IN IF DigestLogged(acc.log, user_id, t) THEN acc
            ELSE [log |-> log_notification(acc.log, user_id, DigestKey(t), "daily_digest",
                                           dm_ok[user_id], t),
                  sent |-> Append(acc.sent,
                                  DigestSend("dm", user_id, Cardinality(user_recent),
                                             user_analytics, dm_ok[user_id], t))]

RECURSIVE DigestUsers(_, _, _, _, _, _, _)
DigestUsers(todo, userdb, seen_, recent, acc, dm_ok, t) ==
    IF todo = {} THEN acc
    ELSE LET user_id == CHOOSE u \in todo : TRUE
         IN DigestUsers(todo \ {user_id}, userdb, seen_, recent,
                        DigestUser(user_id, userdb[user_id], seen_, recent, acc, dm_ok, t),
                        dm_ok, t)

run_digest ==
    /\ pc = "idle"
    /\ digests < MaxDigests
    /\ digests' = digests + 1
    /\ IF ~webhook_url /\ ~(bot_token /\ use_mongodb)
       THEN UNCHANGED <<digest_log, notification_log>>
       ELSE \E hook_ok \in BOOLEAN, dm_ok \in [Users -> BOOLEAN] :
               LET seen_ == load_seen(use_mongodb, store, store_list, now)
                   recent == RecentListings(seen_, now)
                   analytics == compute_digest_analytics(seen_, recent)
                   hook == IF SendsDigest(webhook_url, recent)
                           THEN <<DigestSend("webhook", "", Cardinality(recent), analytics,
                                             hook_ok, now)>>
                           ELSE <<>>
                   r == IF bot_token /\ use_mongodb
                        THEN DigestUsers(get_all_subscribed_users(users), users, seen_,
                                         recent, [log |-> notification_log, sent |-> <<>>],
                                         dm_ok, now)
                        ELSE [log |-> notification_log, sent |-> <<>>]
               IN /\ digest_log' = digest_log \o hook \o r.sent
                  /\ notification_log' = r.log
    /\ UNCHANGED <<env, fanouts, fn_vars, fetched, raw_listings, queries, store, store_list, now, runs, pc,
                   run_locals, dropped>>

\* a day passes between two invocations
NextDay ==
    /\ pc = "idle"
    /\ now < MaxDays
    /\ now' = now + 1
    /\ UNCHANGED <<env, fanouts, fn_vars, digest_vars, fetched, raw_listings, queries, store, store_list,
                   notification_log, runs, pc, run_locals, dropped>>

\* the subscribers of the digest: subscribed or not, the digest toggle on or
\* off, every area or one area
DigestChoices ==
    {User(sub, hoods, [DEFAULT_NOTIFICATION_SETTINGS EXCEPT !.daily_digest = toggle]) :
        sub \in BOOLEAN, hoods \in {{}, {"kips-bay"}}, toggle \in BOOLEAN}

\* the tracked records of the digest: none, or one first seen on day 0
DigestStores ==
    {EmptyDict}
    \cup {[u \in {l.url} |-> TrackedEntry(l, 0)] :
             l \in {Listing("u1", P3000, "Kips Bay", OneBed),
                    Listing("u2", NA, "Murray Hill", Studio)}}

InitDigest ==
    /\ use_mongodb \in BOOLEAN
    /\ webhook_url \in BOOLEAN
    /\ bot_token \in BOOLEAN
    /\ geoclient_key = FALSE
    /\ search_no_fee = FALSE
    /\ webhook_fails = {}
    /\ geo_service = GeoAnswers
    /\ site_depth = "shallow"
    /\ status_service = StatusAnswers
    /\ gone_listings = {}
    /\ fanouts = <<>>
    /\ fetched = <<>>
    /\ digests = 0
    /\ digest_log = <<>>
    /\ fn_input = None
    /\ fn_output = None
    /\ users \in IF use_mongodb THEN [Users -> DigestChoices] ELSE {EmptyDict}
    /\ store \in DigestStores
    /\ store_list = {}
    /\ notification_log = {}
    /\ now = 0
    /\ runs = 0
    /\ pc = "idle"
    /\ neighborhoods = <<>>
    /\ area_idx = 1
    /\ raw_listings = <<>>
    /\ queries = <<>>
    /\ listings = <<>>
    /\ seen = EmptyDict
    /\ is_first_run = FALSE
    /\ new_listings = <<>>
    /\ price_drops = <<>>
    /\ removed = 0
    /\ notifs = <<>>
    /\ calls = {}
    /\ dropped = {}

NextDigest ==
    \/ run_digest
    \/ NextDay

SpecDigest == InitDigest /\ [][NextDigest]_vars

\* ------------------------------------------------------------------------
\* check_listing_status on its own, applied to one response
\* ------------------------------------------------------------------------
StatusCodes == {200, 301, 400, 403, 404, 410, 429, 500}

\* pages: empty, a live listing, each of the two phrases in capitals, a phrase
\* split over two text nodes with blanks around them, a part of a phrase, and
\* the words of a phrase with another word between them
StatusPages ==
    {<<>>,
     <<<<"$", "3", ",", "0", "0", "0">>>>,
     <<<<"N", "o", " ", "L", "o", "n", "g", "e", "r", " ", "A", "v", "a", "i", "l", "a", "b", "l", "e">>>>,
     <<<<"O", "F", "F", " ", "M", "A", "R", "K", "E", "T">>>>,
     <<<<" ", "o", "f", "f">>, <<"m", "a", "r", "k", "e", "t", " ">>>>,
     <<<<"n", "o", " ", "l", "o", "n", "g", "e", "r">>, <<"a", "v", "a", "i", "l", "a", "b", "l", "e">>>>,
     <<<<"n", "o", " ", "l", "o", "n", "g", "e", "r">>>>,
     <<<<"o", "f", "f">>, <<"t", "h", "e", " ", "m", "a", "r", "k", "e", "t">>>>}

StatusResponses ==
    {NetworkError} \cup {Response(c, page) : c \in StatusCodes, page \in StatusPages}

\* the rest of the state, at rest
AtRest ==
    /\ use_mongodb = FALSE
    /\ webhook_url = FALSE
    /\ bot_token = FALSE
    /\ geoclient_key = FALSE
    /\ search_no_fee = FALSE
    /\ webhook_fails = {}
    /\ geo_service = GeoAnswers
    /\ site_depth = "shallow"
    /\ status_service = StatusAnswers
    /\ gone_listings = {}
    /\ fanouts = <<>>
    /\ fetched = <<>>
    /\ digests = 0
    /\ digest_log = <<>>
    /\ users = EmptyDict
    /\ store = EmptyDict
    /\ store_list = {}
    /\ notification_log = {}
    /\ now = 0
    /\ runs = 0
    /\ pc = "idle"
    /\ neighborhoods = <<>>
    /\ area_idx = 1
    /\ raw_listings = <<>>
    /\ queries = <<>>
    /\ listings = <<>>
    /\ seen = EmptyDict
    /\ is_first_run = FALSE
    /\ new_listings = <<>>
    /\ price_drops = <<>>
    /\ removed = 0
    /\ notifs = <<>>
    /\ calls = {}
    /\ dropped = {}

AllButFn ==
    <<env, fanouts, digest_vars, fetched, raw_listings, queries, store, store_list, notification_log,
      now, runs, pc, run_locals, dropped>>

InitStatus ==
    /\ AtRest
    /\ fn_input \in {<<"u1", r>> : r \in StatusResponses}
    /\ fn_output = None

\* status = check_listing_status(session, url)
CheckStatus ==
    /\ fn_output = None
    /\ fn_output' = Some(check_listing_status(fn_input[2]))
    /\ UNCHANGED <<fn_input, AllButFn>>

SpecStatus == InitStatus /\ [][CheckStatus]_vars

\* ------------------------------------------------------------------------
\* compute_value_score on its own
\* ------------------------------------------------------------------------
\* the prices, medians, areas and distances the score is computed for
ScorePrices == {0, 1500, 2500, 2800, 3000, 3100, 3500, 4000, 9000}
ScoreMedians == {0, 2500, 3000, 3500, 4000}
ScoreSqfts == {0, 400, 500, 700, 1200}
ScoreDistances == {0, 5, 10, 25, 40, 49, 50}

\* the listing of compute_value_score: price text, label, area descriptor
ScoreListing(price, hood, sqft) ==
    [url |-> "u1", price |-> price, neighborhood |-> hood, sqft |-> sqft]

\* "500 ft", "1,200 ft"
SqftText(n) == Grouped(n) \o <<" ", "f", "t">>

Station(name, d) == [name |-> name, distance_mi |-> d]

ScoreListings ==
    {ScoreListing(price, "Kips Bay", sqft) :
        price \in {FormatPrice(n) : n \in ScorePrices} \cup {NA},
        sqft \in {SqftText(n) : n \in ScoreSqfts} \cup {NA}}

ScoreMedianDicts ==
    {EmptyDict} \cup {[h \in {"Kips Bay"} |-> m] : m \in ScoreMedians}

\* no station, one station, or two with the closest first
ScoreStations ==
    {<<>>} \cup {<<Station("s1", d)>> : d \in ScoreDistances}
    \cup {<<Station("s1", 10), Station("s2", 40)>>}

InitScore ==
    /\ AtRest
    /\ fn_input \in ScoreListings \X ScoreMedianDicts \X ScoreStations \X BOOLEAN
    /\ fn_output = None

\* vs = compute_value_score(listing, medians, nearby)
ComputeScore ==
    /\ fn_output = None
    /\ fn_output' = Some(compute_value_score(fn_input[1], fn_input[2], fn_input[3],
                                             fn_input[4]))
    /\ UNCHANGED <<fn_input, AllButFn>>

SpecScore == InitScore /\ [][ComputeScore]_vars

\* ------------------------------------------------------------------------
\* The staleness sweep of a run that accepted no listing, over a store of more
\* records than the sweep checks
\* ------------------------------------------------------------------------
SweepSize == 12
SweepUrls == {"s" \o ToString(i) : i \in 1..SweepSize}

\* the last_scraped of record i of store k: a time below span; grain 1 gives
\* distinct times, grain 3 gives records of equal time
SweepTime(i, k, grain, span) == (((7 * i + 3 * k) % span) \div grain) * grain

SweepRecord(i, k, grain, span) ==
    LET base == [first_seen |-> 0, address |-> "s" \o ToString(i), price |-> P3000,
                 neighborhood |-> "Kips Bay"]
    IN IF (i + k) % 5 = 0 THEN base
       ELSE IF (i + 2 * k) % 7 = 3 THEN DictSet(base, "last_scraped", NotADate)
       ELSE DictSet(base, "last_scraped", SweepTime(i, k, grain, span))

\* stores of a few records scraped within the seven days (times up to
\* MaxTime - 5) and stores of several (times up to MaxTime)
SweepStores ==
    {[u \in SweepUrls |->
         SweepRecord(CHOOSE i \in 1..SweepSize : u = "s" \o ToString(i), k, grain, span)] :
        k \in 0..11, grain \in {1, 3}, span \in {MaxTime - 4, MaxTime + 1}}

InitSweep ==
    /\ use_mongodb = FALSE
    /\ webhook_url = FALSE
    /\ bot_token = FALSE
    /\ geoclient_key \in BOOLEAN
    /\ search_no_fee = FALSE
    /\ webhook_fails = {}
    /\ geo_service \in {{Geo(Some(40), Some(1))}, {Geo(Some(40), Some(3))}}
    /\ site_depth = "shallow"
    /\ status_service \in {{"active"}, {"gone"}, {"unknown"}}
    /\ gone_listings = {}
    /\ fanouts = <<>>
    /\ fetched = <<>>
    /\ digests = 0
    /\ digest_log = <<>>
    /\ fn_input = None
    /\ fn_output = None
    /\ users = EmptyDict
    /\ store \in SweepStores
    /\ store_list = {}
    /\ notification_log = {}
    /\ now = MaxTime
    /\ runs = MaxRuns
    /\ pc = "cleanup"
    /\ neighborhoods = get_neighborhoods_to_scrape(use_mongodb, users)
    /\ area_idx = Len(neighborhoods) + 1
    /\ raw_listings = <<>>
    /\ queries = RunQueries(neighborhoods, area_idx - 1, search_no_fee)
    /\ listings = <<>>
    /\ seen = store
    /\ is_first_run = FALSE
    /\ new_listings = <<>>
    /\ price_drops = <<>>
    /\ removed = 0
    /\ notifs = <<>>
    /\ calls = {}
    /\ dropped = {}

NextSweep ==
    \/ Cleanup
    \/ Save
    \/ Exit

SpecSweep == InitSweep /\ [][NextSweep]_vars

\* ------------------------------------------------------------------------
\* Two runs over one or two areas whose broadcasts can fail, be suppressed
\* (first run, no webhook) or go through
\* ------------------------------------------------------------------------
InitAnnounce ==
    /\ use_mongodb \in BOOLEAN
    /\ webhook_url \in BOOLEAN
    /\ bot_token = FALSE
    /\ geoclient_key \in BOOLEAN
    /\ search_no_fee = FALSE
    /\ webhook_fails \in IF webhook_url THEN {{}, {"u1"}} ELSE {{}}
    /\ geo_service = GeoAnswers
    /\ site_depth = "shallow"
    /\ status_service = StatusAnswers
    /\ gone_listings = {}
    /\ fanouts = <<>>
    /\ fetched = <<>>
    /\ digests = 0
    /\ digest_log = <<>>
    /\ fn_input = None
    /\ fn_output = None
    /\ users \in IF use_mongodb
                 THEN [Users -> {User(TRUE, {"kips-bay"}, DEFAULT_NOTIFICATION_SETTINGS)}]
                 ELSE {EmptyDict}
    /\ store \in {EmptyDict, OffSite}
    /\ store_list = {}
    /\ notification_log = {}
    /\ now = 0
    /\ runs = MaxRuns - 2
    /\ pc = "idle"
    /\ neighborhoods = <<>>
    /\ area_idx = 1
    /\ raw_listings = <<>>
    /\ queries = <<>>
    /\ listings = <<>>
    /\ seen = EmptyDict
    /\ is_first_run = FALSE
    /\ new_listings = <<>>
    /\ price_drops = <<>>
    /\ removed = 0
    /\ notifs = <<>>
    /\ calls = {}
    /\ dropped = {}

SpecAnnounce == InitAnnounce /\ [][NextGeo]_vars

\* ------------------------------------------------------------------------
\* Two runs over a store that tracks the first listing of the site, at any of
\* the prices the site shows, with or without earlier price drops
\* ------------------------------------------------------------------------
\* the record of u1 with a stored price and the drops that led to it
PriceRecord(price, drops) ==
    LET entry == TrackedEntry(Listing("u1", price, "Kips Bay", OneBed), 0)
    IN IF Len(drops) = 0 THEN entry
       ELSE DictSet(entry, "price_history", [i \in 1..Len(drops) |-> [price |-> drops[i], date |-> 0]])

PriceStores ==
    {OffSite}
    \cup {[u \in {"u1"} |-> r] :
             r \in {PriceRecord(P3000, <<>>), PriceRecord(P2800, <<>>), PriceRecord(NA, <<>>),
                    PriceRecord(P3000, <<3000>>), PriceRecord(P3000, <<3500, 3000>>),
                    PriceRecord(P2800, <<2800>>)}}

InitPrices ==
    /\ use_mongodb \in BOOLEAN
    /\ webhook_url = FALSE
    /\ bot_token = FALSE
    /\ geoclient_key \in BOOLEAN
    /\ search_no_fee = FALSE
    /\ webhook_fails = {}
    /\ geo_service = GeoAnswers
    /\ site_depth = "shallow"
    /\ status_service = StatusAnswers
    /\ gone_listings = {}
    /\ fanouts = <<>>
    /\ fetched = <<>>
    /\ digests = 0
    /\ digest_log = <<>>
    /\ fn_input = None
    /\ fn_output = None
    /\ users = EmptyDict
    /\ store \in PriceStores
    /\ store_list = {}
    /\ notification_log = {}
    /\ now = 0
    /\ runs = MaxRuns - 2
    /\ pc = "idle"
    /\ neighborhoods = <<>>
    /\ area_idx = 1
    /\ raw_listings = <<>>
    /\ queries = <<>>
    /\ listings = <<>>
    /\ seen = EmptyDict
    /\ is_first_run = FALSE
    /\ new_listings = <<>>
    /\ price_drops = <<>>
    /\ removed = 0
    /\ notifs = <<>>
    /\ calls = {}
    /\ dropped = {}

SpecPrices == InitPrices /\ [][NextGeo]_vars

\* ------------------------------------------------------------------------
\* Two runs with a geo key, over stores whose coordinates are inside the
\* bounds, with a geo service that can also answer one coordinate only
\* ------------------------------------------------------------------------
\* answers without latitude or without longitude
PartialAnswers == {Geo(None, Some(3)), Geo(Some(40), None)}

\* nothing tracked, a record without coordinates for a listing the site no
\* longer shows, and a record of the first listing without coordinates or with
\* coordinates inside the bounds
BoundsStores ==
    {EmptyDict, OffSite}
    \cup {[u \in {"u1"} |-> r] :
             r \in {TrackedEntry(Listing("u1", P3000, "Kips Bay", OneBed), 0),
                    Backfilled(TrackedEntry(Listing("u1", P3000, "Kips Bay", OneBed), 0),
                               Geo(Some(40), Some(1)))}}

InitBounds ==
    /\ use_mongodb \in BOOLEAN
    /\ webhook_url = TRUE
    /\ bot_token = FALSE
    /\ geoclient_key = TRUE
    /\ search_no_fee = FALSE
    /\ webhook_fails = {}
    /\ geo_service = GeoAnswers \cup PartialAnswers
    /\ site_depth = "shallow"
    /\ status_service = StatusAnswers
    /\ gone_listings = {}
    /\ fanouts = <<>>
    /\ fetched = <<>>
    /\ digests = 0
    /\ digest_log = <<>>
    /\ fn_input = None
    /\ fn_output = None
    /\ users = EmptyDict
    /\ store \in BoundsStores
    /\ store_list = {}
    /\ notification_log = {}
    /\ now = 0
    /\ runs = MaxRuns - 2
    /\ pc = "idle"
    /\ neighborhoods = <<>>
    /\ area_idx = 1
    /\ raw_listings = <<>>
    /\ queries = <<>>
    /\ listings = <<>>
    /\ seen = EmptyDict
    /\ is_first_run = FALSE
    /\ new_listings = <<>>
    /\ price_drops = <<>>
    /\ removed = 0
    /\ notifs = <<>>
    /\ calls = {}
    /\ dropped = {}

SpecBounds == InitBounds /\ [][NextGeo]_vars

\* ------------------------------------------------------------------------
\* Two runs over a record whose stored price lies above both prices the site
\* shows, so that each run can see a drop, with a subscriber and a bot token
\* ------------------------------------------------------------------------
P3500 == <<"$", "3", ",", "5", "0", "0">>

\* filters whose price bounds and geographic bounds the tracked record of the
\* model fails, with a bed-type set (a tracked record stores no bed descriptor)
PickyFilters(hoods) ==
    [DEFAULT_FILTERS EXCEPT !.neighborhoods = hoods, !.min_price = 1000,
                            !.max_price = 2000, !.bed_rooms = {<<"2">>},
                            !.geo_bounds = Some([west_longitude |-> 5,
                                                 east_longitude |-> 6])]

DropUsers ==
    {User(TRUE, {}, DEFAULT_NOTIFICATION_SETTINGS),
     User(TRUE, {"kips-bay"}, DEFAULT_NOTIFICATION_SETTINGS),
     User(TRUE, {}, [DEFAULT_NOTIFICATION_SETTINGS EXCEPT !.new_listings = FALSE]),
     [User(TRUE, {}, DEFAULT_NOTIFICATION_SETTINGS) EXCEPT !.filters = PickyFilters({})],
     [User(TRUE, {}, DEFAULT_NOTIFICATION_SETTINGS)
         EXCEPT !.filters = PickyFilters({"midtown"})]}

InitDrops ==
    /\ use_mongodb = TRUE
    /\ webhook_url \in BOOLEAN
    /\ bot_token = TRUE
    /\ geoclient_key = FALSE
    /\ search_no_fee = FALSE
    /\ webhook_fails = {}
    /\ geo_service = GeoAnswers
    /\ site_depth = "shallow"
    /\ status_service = StatusAnswers
    /\ gone_listings = {}
    /\ fanouts = <<>>
    /\ fetched = <<>>
    /\ digests = 0
    /\ digest_log = <<>>
    /\ fn_input = None
    /\ fn_output = None
    /\ users \in [Users -> DropUsers]
    /\ store = [u \in {"u1"} |->
                   Backfilled(TrackedEntry(Listing("u1", P3500, "Kips Bay", OneBed), 0),
                              Geo(Some(40), Some(1)))]
    /\ store_list = {}
    /\ notification_log = {}
    /\ now = 0
    /\ runs = MaxRuns - 2
    /\ pc = "idle"
    /\ neighborhoods = <<>>
    /\ area_idx = 1
    /\ raw_listings = <<>>
    /\ queries = <<>>
    /\ listings = <<>>
    /\ seen = EmptyDict
    /\ is_first_run = FALSE
    /\ new_listings = <<>>
    /\ price_drops = <<>>
    /\ removed = 0
    /\ notifs = <<>>
    /\ calls = {}
    /\ dropped = {}

SpecDrops == InitDrops /\ [][Next]_vars

\* ------------------------------------------------------------------------
\* One run with scrape_neighborhood sliced in two, for a subscriber whose own
\* maximum price is unlimited or above the configured one, with no area or with
\* an area that only the subscriber names
\* ------------------------------------------------------------------------
CeilingUsers ==
    {[User(TRUE, hoods, DEFAULT_NOTIFICATION_SETTINGS) EXCEPT !.filters.max_price = m] :
        hoods \in {{}, {"midtown"}}, m \in {0, 10000}}

InitCeiling ==
    /\ use_mongodb = TRUE
    /\ webhook_url = TRUE
    /\ bot_token = TRUE
    /\ geoclient_key = FALSE
    /\ search_no_fee = FALSE
    /\ webhook_fails = {}
    /\ geo_service = GeoAnswers
    /\ site_depth = "shallow"
    /\ status_service = StatusAnswers
    /\ gone_listings = {}
    /\ fanouts = <<>>
    /\ fetched = <<>>
    /\ digests = 0
    /\ digest_log = <<>>
    /\ fn_input = None
    /\ fn_output = None
    /\ users \in [Users -> CeilingUsers]
    /\ store = OffSite
    /\ store_list = {}
    /\ notification_log = {}
    /\ now = 0
    /\ runs = MaxRuns - 1
    /\ pc = "idle"
    /\ neighborhoods = <<>>
    /\ area_idx = 1
    /\ raw_listings = <<>>
    /\ queries = <<>>
    /\ listings = <<>>
    /\ seen = EmptyDict
    /\ is_first_run = FALSE
    /\ new_listings = <<>>
    /\ price_drops = <<>>
    /\ removed = 0
    /\ notifs = <<>>
    /\ calls = {}
    /\ dropped = {}

NextCeiling ==
    \/ StartRun
    \/ FetchPages
    \/ FilterRaw
    \/ ProcessListing
    \/ SendSummary
    \/ SendPersonalized
    \/ Cleanup
    \/ Save
    \/ Exit

SpecCeiling == InitCeiling /\ [][NextCeiling]_vars

\* ------------------------------------------------------------------------
\* Run after run over a store of stale records that the site no longer shows,
\* on the JSON backend; the page of the awaited record is gone for good, the
\* status checks of the other records all answer the same
\* ------------------------------------------------------------------------
\* the record the sweep is watched for
Awaited == "r"

StarveRecord(url, last_scraped) ==
    [first_seen |-> 0, last_scraped |-> last_scraped, address |-> url, price |-> P3000,
     neighborhood |-> "Kips Bay"]

\* n records scraped at the times 1..n and the awaited record, scraped after them
StarveStore(n) ==
    [u \in {"s" \o ToString(i) : i \in 1..n} \cup {Awaited} |->
        IF u = Awaited THEN StarveRecord(u, max_checks + 1)
        ELSE StarveRecord(u, CHOOSE i \in 1..n : u = "s" \o ToString(i))]

InitStarve ==
    /\ use_mongodb = FALSE
    /\ webhook_url = FALSE
    /\ bot_token = FALSE
    /\ geoclient_key = FALSE
    /\ search_no_fee = FALSE
    /\ webhook_fails = {}
    /\ geo_service = {None}
    /\ site_depth = "quiet"
    /\ status_service \in {{"active"}, {"gone"}, {"unknown"}}
    /\ gone_listings = {Awaited}
    /\ fanouts = <<>>
    /\ fetched = <<>>
    /\ digests = 0
    /\ digest_log = <<>>
    /\ fn_input = None
    /\ fn_output = None
    /\ users = EmptyDict
    /\ store \in {StarveStore(n) : n \in 0..max_checks}
    /\ store_list = {}
    /\ notification_log = {}
    /\ now = MaxTime
    /\ runs = MaxRuns
    /\ pc = "idle"
    /\ neighborhoods = <<>>
    /\ area_idx = 1
    /\ raw_listings = <<>>
    /\ queries = <<>>
    /\ listings = <<>>
    /\ seen = EmptyDict
    /\ is_first_run = FALSE
    /\ new_listings = <<>>
    /\ price_drops = <<>>
    /\ removed = 0
    /\ notifs = <<>>
    /\ calls = {}
    /\ dropped = {}

\* a run started once the run counter has reached its cap: the counter stays
RunAgain ==
    /\ pc = "idle"
    /\ runs = MaxRuns
    /\ neighborhoods' = get_neighborhoods_to_scrape(use_mongodb, users)
    /\ seen' = load_seen(use_mongodb, store, store_list, now)
    /\ is_first_run' = (DOMAIN seen' = {})
    /\ new_listings' = <<>>
    /\ price_drops' = <<>>
    /\ removed' = 0
    /\ notifs' = <<>>
    /\ calls' = {}
    /\ area_idx' = 1
    /\ listings' = <<>>
    /\ queries' = <<>>
    /\ fetched' = <<>>
    /\ pc' = AfterArea(<<>>, 1, neighborhoods')
    /\ UNCHANGED <<env, fanouts, fn_vars, digest_vars, raw_listings, store, store_list, notification_log, now, runs, dropped>>

NextStarve ==
    \/ RunAgain
    \/ ScrapeArea
    \/ SendSummary
    \/ SendPersonalized
    \/ Cleanup
    \/ Save
    \/ Exit

\* the tracker is run periodically, and a run is sequential code up to its
\* sweep and after it; that the sweep of a run ends is left to the property
\* that needs it
SpecStarve ==
    /\ InitStarve
    /\ [][NextStarve]_vars
    /\ WF_vars(RunAgain)
    /\ WF_vars(ScrapeArea)
    /\ WF_vars(SendSummary)
    /\ WF_vars(SendPersonalized)
    /\ WF_vars(Save)
    /\ WF_vars(Exit)

\* ------------------------------------------------------------------------
\* send_personalized_notifications of two processes that run at the same time
\* on one database: each call of db.py is one step, and the steps of the two
\* processes interleave
\* ------------------------------------------------------------------------
Overlapping == 1..2

\* the sends one user's two loops come to, in the order of the code: the events
\* that pass the toggle and listing_matches_user
UserWork(user_id, user, new, drops) ==
    LET matching(events) == SelectSeq(events, LAMBDA l : listing_matches_user(l, user))
        items(kind, events) ==
            [i \in 1..Len(events) |->
                [user |-> user_id, kind |-> kind, url |-> Get(events[i], "url", "")]]
    IN (IF user.notification_settings.new_listings
        THEN items("new_listing", matching(new)) ELSE <<>>)
       \o (IF user.notification_settings.price_drops
           THEN items("price_drop", matching(DropListings(drops))) ELSE <<>>)

RECURSIVE FanoutWork(_, _, _, _)
FanoutWork(todo, userdb, new, drops) ==
    IF todo = {} THEN <<>>
    ELSE LET user_id == CHOOSE u \in todo : TRUE
         IN UserWork(user_id, userdb[user_id], new, drops)
            \o FanoutWork(todo \ {user_id}, userdb, new, drops)

\* the position of a process after the iteration it was in
AfterItem(work) == IF Len(work) = 0 THEN "end" ELSE "check"

\* users = db_module.get_all_subscribed_users(), under the condition of
\* run_scraper for the personalized DMs
FanoutBegin(p) ==
    /\ fanouts[p].at = "start"
    /\ ~is_first_run /\ bot_token /\ use_mongodb
    /\ LET work == FanoutWork(get_all_subscribed_users(users), users, new_listings,
                              price_drops)
       IN fanouts' = [fanouts EXCEPT ![p].work = work, ![p].at = AfterItem(work)]
    /\ UNCHANGED <<env, fn_vars, digest_vars, fetched, raw_listings, queries, store, store_list,
                   notification_log, now, runs, pc, run_locals, dropped>>

\* if db_module.was_notification_sent(...): continue
FanoutCheck(p) ==
    /\ fanouts[p].at = "check"
    /\ LET item == Head(fanouts[p].work)
       IN IF was_notification_sent(notification_log, item.user, item.url, item.kind)
          THEN fanouts' = [fanouts EXCEPT ![p].work = Tail(@),
                                          ![p].at = AfterItem(Tail(fanouts[p].work))]
          ELSE fanouts' = [fanouts EXCEPT ![p].at = "send"]
    /\ UNCHANGED <<env, fn_vars, digest_vars, fetched, raw_listings, queries, store, store_list,
                   notification_log, now, runs, pc, run_locals, dropped>>

\* success = send_discord_dm(bot_token, user_id, embed)
FanoutSend(p) ==
    /\ fanouts[p].at = "send"
    /\ \E success \in BOOLEAN :
          LET item == Head(fanouts[p].work)
          IN fanouts' = [fanouts EXCEPT
                            ![p].sent = Append(@, Dm(item.user, item.kind, item.url, success)),
                            ![p].success = success,
                            ![p].at = "log"]
    /\ UNCHANGED <<env, fn_vars, digest_vars, fetched, raw_listings, queries, store, store_list,
                   notification_log, now, runs, pc, run_locals, dropped>>

\* db_module.log_notification(user_id, listing["url"], kind, success)
FanoutLog(p) ==
    /\ fanouts[p].at = "log"
    /\ LET item == Head(fanouts[p].work)
       IN notification_log' = log_notification(notification_log, item.user, item.url,
                                               item.kind, fanouts[p].success, now)
    /\ fanouts' = [fanouts EXCEPT ![p].work = Tail(@),
                                  ![p].at = AfterItem(Tail(fanouts[p].work))]
    /\ UNCHANGED <<env, fn_vars, digest_vars, fetched, raw_listings, queries, store, store_list,
                   now, runs, pc, run_locals, dropped>>

\* two processes that loaded the same store and scraped the same pages hold the
\* same events when they reach the fan-out
InitOverlap ==
    /\ use_mongodb = TRUE
    /\ webhook_url = FALSE
    /\ bot_token = TRUE
    /\ webhook_fails = {}
    /\ geo_service = GeoAnswers
    /\ site_depth = "shallow"
    /\ status_service = StatusAnswers
    /\ gone_listings = {}
    /\ fanouts = [p \in Overlapping |->
                     [at |-> "start", work |-> <<>>, success |-> FALSE, sent |-> <<>>]]
    /\ fetched = <<>>
    /\ digests = 0
    /\ digest_log = <<>>
    /\ fn_input = None
    /\ fn_output = None
    /\ geoclient_key = TRUE
    /\ search_no_fee = FALSE
    /\ users \in [Users -> FanoutUsers]
    /\ store_list = {}
    /\ notification_log \in FanoutLogs
    /\ now = 0
    /\ runs = 1
    /\ pc = "personal"
    /\ neighborhoods = get_neighborhoods_to_scrape(use_mongodb, users)
    /\ area_idx = Len(neighborhoods) + 1
    /\ raw_listings = <<>>
    /\ queries = RunQueries(neighborhoods, area_idx - 1, search_no_fee)
    /\ listings = <<>>
    /\ is_first_run = FALSE
    /\ new_listings \in FanoutNew
    /\ price_drops \in FanoutDrops
    /\ store = LoadedStore(new_listings, price_drops)
    /\ seen = WorkingCopy(store, new_listings, price_drops, now)
    /\ removed = 0
    /\ notifs = <<>>
    /\ calls = {}
    /\ dropped = {}

NextOverlap ==
    \E p \in Overlapping :
        \/ FanoutBegin(p)
        \/ FanoutCheck(p)
        \/ FanoutSend(p)
        \/ FanoutLog(p)

SpecOverlap == InitOverlap /\ [][NextOverlap]_vars

\* ------------------------------------------------------------------------
\* discord_bot.py: /subscribe and /unsubscribe, commands of the bot process,
\* which runs beside the scraper on the same database
\* ------------------------------------------------------------------------
\* $set of update_one: the fields of updates replace or extend those of doc
SetFields(doc, updates) ==
    [k \in DOMAIN doc \cup DOMAIN updates |->
        IF k \in DOMAIN updates THEN updates[k] ELSE doc[k]]

create_user(userdb, discord_user_id, t) ==
    DictSet(userdb, discord_user_id,
            [subscribed |-> TRUE, created_at |-> t, updated_at |-> t,
             filters |-> DEFAULT_FILTERS,
             notification_settings |-> DEFAULT_NOTIFICATION_SETTINGS])

update_user(userdb, discord_user_id, updates, t) ==
    IF discord_user_id \in DOMAIN userdb
    THEN [userdb EXCEPT ![discord_user_id] =
             SetFields(@, SetFields(updates, [updated_at |-> t]))]
    ELSE userdb

\* variant: the update puts the filters back to the defaults
set_user_subscribed_fresh_filters(userdb, discord_user_id, subscribed, t) ==
    update_user(userdb, discord_user_id,
                [subscribed |-> subscribed, filters |-> DEFAULT_FILTERS], t)

set_user_subscribed(userdb, discord_user_id, subscribed, t) ==
    update_user(userdb, discord_user_id, [subscribed |-> subscribed], t)

subscribe(user_id) ==
    /\ use_mongodb
    /\ LET existing == user_id \in DOMAIN users
       IN IF existing /\ users[user_id].subscribed
          THEN UNCHANGED users
          ELSE IF existing
          THEN users' = set_user_subscribed(users, user_id, TRUE, now)
          ELSE users' = create_user(users, user_id, now)
    /\ UNCHANGED <<use_mongodb, webhook_url, bot_token, geoclient_key, search_no_fee,
                   webhook_fails, geo_service, site_depth, status_service, gone_listings,
                   fanouts, fn_vars, digest_vars, fetched, raw_listings, queries, store,
                   store_list, notification_log, now, runs, pc, run_locals, dropped>>

unsubscribe(user_id) ==
    /\ use_mongodb
    /\ LET existing == user_id \in DOMAIN users
       IN IF ~existing
          THEN UNCHANGED users
          ELSE IF ~users[user_id].subscribed
          THEN UNCHANGED users
          ELSE users' = set_user_subscribed(users, user_id, FALSE, now)
    /\ UNCHANGED <<use_mongodb, webhook_url, bot_token, geoclient_key, search_no_fee,
                   webhook_fails, geo_service, site_depth, status_service, gone_listings,
                   fanouts, fn_vars, digest_vars, fetched, raw_listings, queries, store,
                   store_list, notification_log, now, runs, pc, run_locals, dropped>>

\* the subscribers before the first command: all subscribed, with filters and
\* toggles that are not the defaults
PauseUsers ==
    {User(TRUE, {"kips-bay"}, DEFAULT_NOTIFICATION_SETTINGS),
     User(TRUE, {}, [DEFAULT_NOTIFICATION_SETTINGS EXCEPT !.daily_digest = FALSE]),
     [User(TRUE, {}, DEFAULT_NOTIFICATION_SETTINGS) EXCEPT !.filters = PickyFilters({})]}

\* one run and the digests of the day, with the bot's commands at any time; the
\* store holds u1 at a price above the one the site shows
InitPause ==
    /\ use_mongodb = TRUE
    /\ webhook_url = FALSE
    /\ bot_token = TRUE
    /\ geoclient_key = FALSE
    /\ search_no_fee = FALSE
    /\ webhook_fails = {}
    /\ geo_service = GeoAnswers
    /\ site_depth = "shallow"
    /\ status_service = StatusAnswers
    /\ gone_listings = {}
    /\ fanouts = <<>>
    /\ fetched = <<>>
    /\ digests = 0
    /\ digest_log = <<>>
    /\ fn_input = None
    /\ fn_output = None
    /\ users \in {EmptyDict} \cup [Users -> PauseUsers]
    /\ store = [u \in {"u1"} |->
                   Backfilled(TrackedEntry(Listing("u1", P3500, "Kips Bay", OneBed), 0),
                              Geo(Some(40), Some(1)))]
    /\ store_list = {}
    /\ notification_log = {}
    /\ now = 0
    /\ runs = MaxRuns - 1
    /\ pc = "idle"
    /\ neighborhoods = <<>>
    /\ area_idx = 1
    /\ raw_listings = <<>>
    /\ queries = <<>>
    /\ listings = <<>>
    /\ seen = EmptyDict
    /\ is_first_run = FALSE
    /\ new_listings = <<>>
    /\ price_drops = <<>>
    /\ removed = 0
    /\ notifs = <<>>
    /\ calls = {}
    /\ dropped = {}

NextPause ==
    \/ StartRun
    \/ ScrapeArea
    \/ ProcessListing
    \/ SendSummary
    \/ SendPersonalized
    \/ Cleanup
    \/ Save
    \/ Exit
    \/ run_digest
    \/ \E user_id \in Users : subscribe(user_id)
    \/ \E user_id \in Users : unsubscribe(user_id)

SpecPause == InitPause /\ [][NextPause]_vars

\* ------------------------------------------------------------------------
\* Properties
\* ------------------------------------------------------------------------
\* the sends a step appends to the sends of the run
NewSends ==
    IF Len(notifs') >= Len(notifs) /\ SubSeq(notifs', 1, Len(notifs)) = notifs
    THEN SubSeq(notifs', Len(notifs) + 1, Len(notifs'))
    ELSE notifs'

\* a status check of u answered "gone" is among the calls cs
GoneEvidence(u, cs) == StatusCall(u, "gone") \in cs

\* a geo lookup for the tracked record of u that lies outside the bounds is among cs
GeoEvidence(u, cs) ==
    \E c \in cs : c.call = "geo" /\ c.url = u /\ c.tracked /\ OutsideBounds(c.geo)

\* a geo lookup for the untracked listing u that lies outside the bounds is among cs
GeoFiltered(u, cs) ==
    \E c \in cs : c.call = "geo" /\ c.url = u /\ ~c.tracked /\ OutsideBounds(c.geo)

IsDm(m, U, L, K) == m.chan = "dm" /\ m.user = U /\ m.url = L /\ m.kind = K

Logged(log, U, L, K, success) ==
    \E e \in log : /\ e.discord_user_id = U
                   /\ e.listing_url = L
                   /\ e.notification_type = K
                   /\ e.success = success

\* the events of kind K that send_personalized_notifications is handed
Events(K) == IF K = "new_listing" THEN new_listings ELSE DropListings(price_drops)

Enabled(U, K) ==
    IF K = "new_listing" THEN users[U].notification_settings.new_listings
    ELSE users[U].notification_settings.price_drops

Count(chan, kind) ==
    Cardinality({i \in 1..Len(notifs) : notifs[i].chan = chan /\ notifs[i].kind = kind})

Stamp(entry, k) == Get(entry, k, -1)

\* the steps of a run, told apart from the steps of the environment
ProcessStep == pc = "process" /\ listings' = Tail(listings)
FanoutStep == pc = "personal" /\ pc' = "cleanup"
SweepStep == pc = "cleanup" /\ pc' = "save"
SaveStep == pc = "save" /\ pc' = "done"

\* C1: a tracked record leaves the working copy only in a step that has a status
\* check answer "gone" for it or a geo lookup place it outside the bounds, it
\* leaves the persistent store only when the run that saves has such evidence,
\* and loading the store drops no record.
C1_RemovedOnlyOnEvidence ==
    [][\A u \in URLS :
          /\ (pc # "done" /\ u \in DOMAIN seen /\ u \notin DOMAIN seen')
                => (GoneEvidence(u, calls' \ calls) \/ GeoEvidence(u, calls' \ calls))
          /\ (u \in DOMAIN store \cup store_list /\ u \notin DOMAIN store' \cup store_list')
                => (pc = "save" /\ (GoneEvidence(u, calls) \/ GeoEvidence(u, calls)))
          /\ (pc = "idle" /\ pc' # "idle" /\ u \in DOMAIN store \cup store_list)
                => u \in DOMAIN seen'
      ]_vars

\* a run ends that removed one record on a "gone" status and one on its geo lookup
C1_Witness ==
    /\ pc = "done"
    /\ DOMAIN seen = {}
    /\ GoneEvidence("u2", calls)
    /\ GeoEvidence("u1", calls)

\* C2: when a run has saved, the persistent store equals the working copy of the
\* run (as stated: both backends).
C2_StoreEqualsWorkingCopy == pc = "done" => store = seen

\* C3: while a successful entry for (U, L, K) stays in the notification log, no
\* step attempts a DM for (U, L, K), and within one fan-out no DM follows a
\* successful DM for the same triple.
C3_NoSendAfterSuccess ==
    [][\A U \in Users, L \in URLS, K \in Kinds :
          /\ (\E e \in notification_log \cap notification_log' :
                 /\ e.discord_user_id = U
                 /\ e.listing_url = L
                 /\ e.notification_type = K
                 /\ e.success)
                => \A i \in 1..Len(NewSends) : ~IsDm(NewSends[i], U, L, K)
          /\ \A i, j \in 1..Len(NewSends) :
                (i < j /\ IsDm(NewSends[i], U, L, K) /\ NewSends[i].ok)
                   => ~IsDm(NewSends[j], U, L, K)
      ]_vars

\* the fan-out has just skipped a new listing that matches a subscriber who holds
\* a successful entry for it from an earlier run
C3_Witness ==
    /\ pc = "cleanup"
    /\ ~is_first_run /\ bot_token /\ use_mongodb
    /\ \E U \in DOMAIN users, i \in 1..Len(new_listings) :
          /\ users[U].subscribed
          /\ listing_matches_user(new_listings[i], users[U])
          /\ Logged(notification_log, U, new_listings[i].url, "new_listing", TRUE)
          /\ \A j \in 1..Len(notifs) :
                ~IsDm(notifs[j], U, new_listings[i].url, "new_listing")

\* C4: a fan-out that is handed an event of kind K for L matching subscriber U,
\* with only failed entries for (U, L, K) in the log, attempts the DM again (as
\* stated).
C4_FailureAllowsRetry ==
    [][(FanoutStep /\ ~is_first_run /\ bot_token /\ use_mongodb)
          => \A U \in get_all_subscribed_users(users), K \in Kinds :
                \A i \in 1..Len(Events(K)) :
                   LET L == Events(K)[i].url
                   IN (/\ Enabled(U, K)
                       /\ listing_matches_user(Events(K)[i], users[U])
                       /\ Logged(notification_log, U, L, K, FALSE)
                       /\ ~Logged(notification_log, U, L, K, TRUE))
                         => \E j \in 1..Len(NewSends) : IsDm(NewSends[j], U, L, K)
      ]_vars

\* the body shared by the two statements of C5: no individual new-listing send,
\* and a record for every accepted listing unless its geo backfill removed it
FirstRunQuiet ==
    /\ Count("webhook", "new_listing") = 0
    /\ Count("dm", "new_listing") = 0
    /\ \A i \in 1..Len(new_listings) :
          \/ new_listings[i].url \in DOMAIN seen
          \/ GeoEvidence(new_listings[i].url, calls)

FirstRunReported ==
    /\ pc \in {"personal", "cleanup", "save", "done"}
    /\ is_first_run
    /\ Len(new_listings) >= 1

\* C5 as stated: a first run that accepts listings sends exactly one summary.
C5_FirstRunOneSummary ==
    FirstRunReported => (Count("webhook", "summary") = 1 /\ FirstRunQuiet)

\* C5: a first run that accepts listings sends exactly one summary when a
\* broadcast webhook is configured and none otherwise, sends no individual
\* new-listing notification, and has created a record for every accepted listing.
C5_FirstRunSummaryIfWebhook ==
    FirstRunReported
       => (Count("webhook", "summary") = (IF webhook_url THEN 1 ELSE 0) /\ FirstRunQuiet)

\* a first run with a webhook has ended with its one summary sent
C5_Witness ==
    /\ pc = "done"
    /\ is_first_run
    /\ webhook_url
    /\ Len(new_listings) >= 1
    /\ Count("webhook", "summary") = 1
    /\ \A i \in 1..Len(new_listings) : new_listings[i].url \in DOMAIN store

\* a non-first run is about to process a tracked listing observed below its
\* stored price
PriceDropCase ==
    /\ pc = "process"
    /\ ~is_first_run
    /\ Head(listings).url \in DOMAIN seen
    /\ LET P == parse_price(Get(seen[Head(listings).url], "price", <<>>))
           Q == parse_price(Head(listings).price)
       IN P # None /\ Q # None /\ Q[1] < P[1]

\* the step emits one price-drop event with the savings, stores the new price
\* and appends one history entry
PriceDropApplied ==
    LET url == Head(listings).url
        P == parse_price(Get(seen[url], "price", <<>>))
        Q == parse_price(Head(listings).price)
        n == Len(price_drops')
    IN /\ n = Len(price_drops) + 1
       /\ SubSeq(price_drops', 1, n - 1) = price_drops
       /\ price_drops'[n].listing.url = url
       /\ price_drops'[n].price_change.savings = P[1] - Q[1]
       /\ url \in DOMAIN seen'
       /\ parse_price(Get(seen'[url], "price", <<>>)) = Q
       /\ Get(seen'[url], "price_history", <<>>)
             = Append(Get(seen[url], "price_history", <<>>),
                      [price |-> Q[1], date |-> now])

\* the step removes the record on its geo backfill and emits nothing
PriceDropPreempted ==
    LET url == Head(listings).url
    IN /\ url \notin DOMAIN seen'
       /\ GeoEvidence(url, calls' \ calls)
       /\ price_drops' = price_drops
       /\ notifs' = notifs

\* C6 as stated: every re-observation below the stored price in a non-first run
\* emits the price drop and updates the record.
C6_PriceDropAlways == [][(PriceDropCase /\ ProcessStep) => PriceDropApplied]_vars

\* C6: a re-observation below the stored price in a non-first run emits exactly
\* one price-drop event with savings P - P', stores P' and appends one history
\* entry, unless the geo backfill of that step removes the record.
C6_PriceDropUnlessRemoved ==
    [][(PriceDropCase /\ ProcessStep) => (PriceDropApplied \/ PriceDropPreempted)]_vars

\* a record stored at $3,000 was re-observed at $2,800
C6_Witness ==
    /\ ~is_first_run
    /\ \E i \in 1..Len(price_drops) :
          LET d == price_drops[i]
          IN /\ d.price_change.savings = 200
             /\ d.listing.url \in DOMAIN seen
             /\ seen[d.listing.url].price = P2800
             /\ Len(seen[d.listing.url].price_history) = 1

\* C7: in the sweep, every record that is checked and found "gone" was stale and
\* is absent from the working copy afterwards, and the count the sweep returns is
\* the number of records it removed.
C7_SweepRemovesGone ==
    [][SweepStep
          => /\ \A u \in DOMAIN seen :
                   StatusCall(u, "gone") \in calls' \ calls
                      => (IsStale(seen[u], now) /\ u \notin DOMAIN seen')
             /\ removed' = Cardinality(DOMAIN seen \ DOMAIN seen')
      ]_vars

\* a sweep has removed two records, one of them found "gone"
C7_Witness ==
    /\ pc = "save"
    /\ removed = 2
    /\ \E u \in URLS : GoneEvidence(u, calls) /\ u \notin DOMAIN seen

\* C8 as stated: a stale record whose status check answers "unknown" keeps
\* every field.
C8_UnknownUntouched ==
    [][SweepStep
          => \A u \in DOMAIN seen :
                StatusCall(u, "unknown") \in calls' \ calls
                   => (u \in DOMAIN seen' /\ seen'[u] = seen[u])
      ]_vars

\* C8: a stale record whose status check answers "unknown" stays in the store
\* with every field it had, last-scraped included, so it is stale again on the
\* next run; the only change the sweep can make to it is to add the coordinates
\* of its geo backfill.
C8_UnknownKeepsFields ==
    [][SweepStep
          => \A u \in DOMAIN seen :
                StatusCall(u, "unknown") \in calls' \ calls
                   => /\ u \in DOMAIN seen'
                      /\ \A k \in DOMAIN seen[u] :
                            k \in DOMAIN seen'[u] /\ seen'[u][k] = seen[u][k]
                      /\ DOMAIN seen'[u] \ DOMAIN seen[u] \subseteq {"latitude", "longitude"}
                      /\ (DOMAIN seen'[u] # DOMAIN seen[u]
                            => (geoclient_key /\ "latitude" \notin DOMAIN seen[u]))
                      /\ IsStale(seen'[u], now)
      ]_vars

\* a sweep has backfilled the coordinates of a stale record and found its status
\* "unknown"
C8_Witness ==
    /\ pc = "save"
    /\ \E u \in DOMAIN seen :
          /\ StatusCall(u, "unknown") \in calls
          /\ GeoCall(u, TRUE, Geo(Some(40), Some(1))) \in calls
          /\ "latitude" \in DOMAIN seen[u]
          /\ IsStale(seen[u], now)

\* C9: the step that re-observes a tracked record and keeps it sets its
\* last-scraped to the time of the run; until the run has saved, no step changes
\* the first-seen of a record it keeps or moves a last-scraped off the time of
\* the run; the sweep keeps a record it finds "active" and sets its last-scraped
\* to the time of the sweep; and the save stores both timestamps of every record
\* of the working copy.
C9_LastScrapedRefreshed ==
    [][/\ pc \in {"process", "summary", "personal", "cleanup", "save"}
          => \A u \in DOMAIN seen \cap DOMAIN seen' :
                /\ Stamp(seen'[u], "first_seen") = Stamp(seen[u], "first_seen")
                /\ (ProcessStep /\ Head(listings).url = u)
                      => Stamp(seen'[u], "last_scraped") = now
                /\ Stamp(seen[u], "last_scraped") = now
                      => Stamp(seen'[u], "last_scraped") = now
       /\ SweepStep
          => \A u \in DOMAIN seen :
                StatusCall(u, "active") \in calls' \ calls
                   => (u \in DOMAIN seen' /\ Stamp(seen'[u], "last_scraped") = now)
       /\ SaveStep
          => \A u \in DOMAIN seen :
                /\ u \in DOMAIN store'
                /\ Stamp(store'[u], "first_seen") = Stamp(seen[u], "first_seen")
                /\ Stamp(store'[u], "last_scraped") = Stamp(seen[u], "last_scraped")
      ]_vars

\* a run thirty days after the first has re-observed one record and found the
\* other "active" in its sweep
C9_Witness ==
    /\ pc = "done"
    /\ now = MaxTime
    /\ \E u \in DOMAIN store, v \in DOMAIN store :
          /\ u # v
          /\ Stamp(store[u], "first_seen") = 0
          /\ Stamp(store[u], "last_scraped") = now
          /\ u \notin {c.url : c \in calls}
          /\ StatusCall(v, "active") \in calls
          /\ Stamp(store[v], "last_scraped") = now

\* C10 (as stated): a listing whose record was removed and that a scrape
\* accepts again is processed as a never-seen one: it is filtered by the geo
\* bounds, or it gets a fresh record (first-seen = last-scraped = now, the
\* observed price, no price history), joins the new listings of the run and is
\* broadcast when a webhook is configured and the run is not a first run.
C10_ReacceptedIsNew ==
    [][(ProcessStep /\ Head(listings).url \in dropped)
          => LET l == Head(listings)
                 u == l.url
             IN \/ /\ u \in DOMAIN seen'
                   /\ Stamp(seen'[u], "first_seen") = now
                   /\ Stamp(seen'[u], "last_scraped") = now
                   /\ Get(seen'[u], "price", <<>>) = l.price
                   /\ "price_history" \notin DOMAIN seen'[u]
                   /\ Len(new_listings') = Len(new_listings) + 1
                   /\ new_listings'[Len(new_listings')].url = u
                   /\ NewSends = IF webhook_url /\ ~is_first_run
                                 THEN <<Webhook("new_listing", u, u \notin webhook_fails)>>
                                 ELSE <<>>
                \/ /\ u \notin DOMAIN seen'
                   /\ GeoFiltered(u, calls' \ calls)
      ]_vars

\* a geo lookup for the tracked record of u resolved to a longitude outside the
\* configured bounds, among the calls cs
ResolvedOutside(u, cs) ==
    \E c \in cs : /\ c.call = "geo"
                  /\ c.url = u
                  /\ c.tracked
                  /\ c.geo # None
                  /\ c.geo[1].longitude # None
                  /\ ~(geo_bounds.west_longitude <= c.geo[1].longitude[1]
                       /\ c.geo[1].longitude[1] <= geo_bounds.east_longitude)

DropsFor(u, drops) == {i \in 1..Len(drops) : drops[i].listing.url = u}

\* C11 as stated: the step whose geo lookup places a tracked record outside the
\* bounds removes it, and the run holds no price-drop event for it.
C11_RemovedNoDropInRun ==
    [][\A u \in URLS :
          ResolvedOutside(u, calls' \ calls)
             => /\ u \in DOMAIN seen
                /\ u \notin DOMAIN seen'
                /\ DropsFor(u, price_drops') = {}
      ]_vars

\* C11: the step (re-observation or sweep) whose geo lookup places a tracked
\* record outside the bounds removes the record and emits nothing: no price-drop
\* event, no send; a sweep counts the removal. Price-drop events the run emitted
\* for the record before that step are kept.
C11_RemovedNoDropInStep ==
    [][\A u \in URLS :
          ResolvedOutside(u, calls' \ calls)
             => /\ geoclient_key
                /\ u \in DOMAIN seen
                /\ "latitude" \notin DOMAIN seen[u]
                /\ u \notin DOMAIN seen'
                /\ price_drops' = price_drops
                /\ notifs' = notifs
                /\ SweepStep => removed' >= 1
                /\ (ProcessStep \/ SweepStep)
      ]_vars

\* a non-first run has re-observed a stored record, and the geo lookup of that
\* step removed it without a price-drop event
C11_Witness ==
    /\ pc = "summary"
    /\ ~is_first_run
    /\ "u1" \in DOMAIN store
    /\ store["u1"].price = P3000
    /\ "u1" \notin DOMAIN seen
    /\ ResolvedOutside("u1", calls)
    /\ price_drops = <<>>
    /\ new_listings = <<>>

\* the log entry of an attempted DM
EntryOf(m, t) ==
    [discord_user_id |-> m.user, listing_url |-> m.url, notification_type |-> m.kind,
     sent_at |-> t, success |-> m.ok]

\* C12: a fan-out attempts a DM of kind K for L to U only if U is subscribed, U's
\* toggle for K is on, an event of kind K for L matches U's filters, and the log
\* held no entry for (U, L, K) before the attempt (neither from an earlier run
\* nor from an earlier attempt of this fan-out); every attempt appends exactly one
\* log entry, whose success field is the result of the send.
C12_AttemptOnlyIfDue ==
    [][FanoutStep
          => /\ \A i \in 1..Len(NewSends) :
                   LET m == NewSends[i]
                   IN /\ m.chan = "dm"
                      /\ m.kind \in Kinds
                      /\ m.user \in DOMAIN users
                      /\ users[m.user].subscribed
                      /\ Enabled(m.user, m.kind)
                      /\ \E k \in 1..Len(Events(m.kind)) :
                            /\ Events(m.kind)[k].url = m.url
                            /\ listing_matches_user(Events(m.kind)[k], users[m.user])
                      /\ ~\E e \in notification_log :
                            /\ e.discord_user_id = m.user
                            /\ e.listing_url = m.url
                            /\ e.notification_type = m.kind
                      /\ \A j \in 1..(i - 1) : ~IsDm(NewSends[j], m.user, m.url, m.kind)
             /\ notification_log' =
                   notification_log \cup {EntryOf(NewSends[i], now) : i \in 1..Len(NewSends)}
             /\ Cardinality(notification_log' \ notification_log) = Len(NewSends)
      ]_vars

\* a fan-out has attempted a DM that failed and logged the failure, skipped an
\* event of a kind the subscriber has switched off, and left the entry of an
\* earlier run as it was
C12_Witness ==
    /\ pc = "cleanup"
    /\ \E U \in DOMAIN users :
          /\ users[U].subscribed
          /\ users[U].notification_settings.new_listings
          /\ ~users[U].notification_settings.price_drops
          /\ Len(price_drops) > 0
          /\ \E i \in 1..Len(notifs) :
                /\ IsDm(notifs[i], U, "u2", "new_listing")
                /\ ~notifs[i].ok
                /\ EntryOf(notifs[i], now) \in notification_log
          /\ Logged(notification_log, U, "u1", "new_listing", TRUE)
          /\ \A i \in 1..Len(notifs) : notifs[i].url # "u1"

\* the step that runs the filter pipeline, and the area it runs for
FilterStep == pc = "filter" /\ pc' # "filter"
FilterArea == neighborhoods[area_idx]

\* the positions of raw that hold the first occurrence of an identifier, with a
\* price that is absent or not above the ceiling and a label in the set allowed
KeptAt(raw, allowed) ==
    {i \in 1..Len(raw) :
        /\ \A j \in 1..(i - 1) : raw[j].url # raw[i].url
        /\ LET price == parse_price(raw[i].price)
           IN price = None \/ price[1] <= max_price
        /\ raw[i].neighborhood \in allowed}

\* the subsequence of raw at the positions K, from position i on
RECURSIVE SubseqAt(_, _, _)
SubseqAt(raw, K, i) ==
    IF i > Len(raw) THEN <<>>
    ELSE (IF i \in K THEN <<raw[i]>> ELSE <<>>) \o SubseqAt(raw, K, i + 1)

\* raw with one more copy of its record i put after position k
CopyAfter(raw, i, k) == SubSeq(raw, 1, k) \o <<raw[i]>> \o SubSeq(raw, k + 1, Len(raw))

\* raw with one more copy of one of its records, anywhere after the record
Copies(raw) ==
    {CopyAfter(raw, ik[1], ik[2]) :
        ik \in {x \in (1..Len(raw)) \X (1..Len(raw)) : x[1] <= x[2]}}

\* raw with one or two such copies
Duplicated(raw) == Copies(raw) \cup UNION {Copies(r) : r \in Copies(raw)}

\* C13: for an area with an alias set, the output of the filter pipeline is the
\* subsequence of the raw records, in their order, made of the first occurrence
\* of each identifier whose price is absent or not above the ceiling and whose
\* label is in the alias set; the output is the same for the raw records with
\* any record copied once or twice further down, and for the de-duplicated list.
C13_FilterIsFirstOccurrences ==
    [][(FilterStep /\ FilterArea \in DOMAIN NEIGHBORHOOD_ALIASES)
          => LET allowed == NEIGHBORHOOD_ALIASES[FilterArea]
             IN /\ listings' = SubseqAt(raw_listings, KeptAt(raw_listings, allowed), 1)
                /\ \A more \in Duplicated(raw_listings) :
                      FilterListings(more, FilterArea) = listings'
                /\ FilterListings(Dedup(raw_listings, {}), FilterArea) = listings'
                /\ FilterListings(listings', FilterArea) = listings'
      ]_vars

\* the pipeline has run for an area with an alias set over three records: the
\* first is accepted, the second is above the ceiling, and the third repeats the
\* identifier of the second with an acceptable price and label
C13_Witness ==
    /\ pc = "process"
    /\ area_idx > 1
    /\ neighborhoods[area_idx - 1] \in DOMAIN NEIGHBORHOOD_ALIASES
    /\ Len(raw_listings) = 3
    /\ raw_listings[2].url = raw_listings[3].url
    /\ ~UnderMaxPrice(raw_listings[2])
    /\ UnderMaxPrice(raw_listings[3])
    /\ raw_listings[3].neighborhood \in NEIGHBORHOOD_ALIASES[neighborhoods[area_idx - 1]]
    /\ listings = <<raw_listings[1]>>

\* C14 as stated: for every area a run scrapes, configured or a subscriber's,
\* every record of the pipeline's output has a non-empty label that is in the
\* alias set of the area.
C14_OutputLabelsInAliasSet ==
    [][FilterStep
          => \A i \in 1..Len(listings') :
                /\ listings'[i].neighborhood # ""
                /\ listings'[i].neighborhood \in Get(NEIGHBORHOOD_ALIASES, FilterArea, {})
      ]_vars

\* C15 as stated: for the record and the card of a re-observation,
\* detect_price_change returns a result exactly when the stored price parses to
\* P, the observed price to P' and 0 < P' < P, the result's savings are P - P',
\* and a non-first run that keeps the record emits a price-drop event exactly
\* for such a result.
C15_ResultIffLowerPositive ==
    [][(ProcessStep /\ Head(listings).url \in DOMAIN seen)
          => LET url == Head(listings).url
                 stored == parse_price(Get(seen[url], "price", <<>>))
                 observed == parse_price(Head(listings).price)
                 result == detect_price_change(seen[url], observed)
                 lower == /\ stored # None
                          /\ observed # None
                          /\ 0 < observed[1]
                          /\ observed[1] < stored[1]
             IN /\ result # None <=> lower
                /\ result # None => result[1].savings = stored[1] - observed[1]
                /\ (~is_first_run /\ url \in DOMAIN seen')
                      => (Len(price_drops') = Len(price_drops) + 1 <=> lower)
      ]_vars

\* the events a fan-out is handed, of both kinds
AllEvents == UNION {{<<K, Events(K)[i]>> : i \in 1..Len(Events(K))} : K \in Kinds}

\* the step attempts a DM for the event to U
Attempted(U, ev) ==
    \E j \in 1..Len(NewSends) : IsDm(NewSends[j], U, Get(ev[2], "url", ""), ev[1])

\* the price of an event's listing, none if it has none or it does not parse
PriceOf(listing) == parse_price(Get(listing, "price", <<>>))

\* C16 as stated: a listing whose price parses below the subscriber's positive
\* minimum, or above the subscriber's positive maximum, never matches, whatever
\* the other bound is: the predicate is false and no DM is attempted.
C16_EachPriceBoundEnforced ==
    [][FanoutStep
          => \A U \in get_all_subscribed_users(users), ev \in AllEvents :
                LET f == users[U].filters
                    price == PriceOf(ev[2])
                    below == price # None /\ f.min_price > 0 /\ price[1] < f.min_price
                    above == price # None /\ f.max_price > 0 /\ price[1] > f.max_price
                IN (below \/ above)
                      => /\ ~listing_matches_user(ev[2], users[U])
                         /\ ~Attempted(U, ev)
      ]_vars

\* the area condition of C17 for a label and a user's set of area keys
AreaPasses(label, area_keys) ==
    \/ area_keys = {}
    \/ /\ label # ""
       /\ \E key \in area_keys :
             \/ (key \in DOMAIN NEIGHBORHOOD_ALIASES /\ label \in NEIGHBORHOOD_ALIASES[key])
             \/ (key \in DOMAIN VALID_NEIGHBORHOODS /\ label = VALID_NEIGHBORHOODS[key])

\* C17: the area sub-filter passes every listing when the user's area set is
\* empty, and otherwise passes exactly the listings whose label is non-empty and
\* is in the alias set, or is the display name, of some key of the user's set: a
\* listing that fails it is not matched and no DM is attempted, and a listing
\* that passes it and the other sub-filters is matched and its DM is attempted.
C17_AreaSubFilter ==
    [][FanoutStep
          => \A U \in get_all_subscribed_users(users), ev \in AllEvents :
                LET f == users[U].filters
                    passes == AreaPasses(Get(ev[2], "neighborhood", ""), f.neighborhoods)
                    others == /\ MatchesPrice(ev[2], f)
                              /\ MatchesBeds(ev[2], f)
                              /\ MatchesGeo(ev[2], f)
                IN /\ MatchesNeighborhoods(ev[2], f) <=> passes
                   /\ ~passes => ~Attempted(U, ev)
                   /\ (passes /\ others /\ Enabled(U, ev[1])
                       /\ ~was_notification_sent(notification_log, U, ev[2].url, ev[1]))
                         => Attempted(U, ev)
      ]_vars

\* a fan-out has attempted the DM of a listing labelled with the display name of
\* the subscriber's area, which has no alias set
C17_Witness ==
    /\ pc = "cleanup"
    /\ \E U \in DOMAIN users :
          /\ users[U].subscribed
          /\ users[U].filters.neighborhoods = {"midtown"}
          /\ Len(new_listings) = 1
          /\ new_listings[1].neighborhood = "Midtown"
          /\ \E i \in 1..Len(notifs) : IsDm(notifs[i], U, new_listings[1].url, "new_listing")

\* a bed descriptor that names neither a studio nor a count (empty and 'N/A'
\* among them)
BedsUnparseable(beds) ==
    /\ ~Contains(Lower(beds), StudioWord)
    /\ Len(FirstDigitRun(beds, 1)) = 0

\* C18 as stated: missing or unparseable listing data never disqualifies: an
\* unparseable price passes the price sub-filter, an empty, 'N/A' or otherwise
\* unparseable bed descriptor passes the bed-type sub-filter, a listing without
\* coordinates passes the geographic sub-filter, and a listing with all three
\* missing whose area passes is matched and its DM attempted.
C18_MissingDataPasses ==
    [][FanoutStep
          => \A U \in get_all_subscribed_users(users), ev \in AllEvents :
                LET f == users[U].filters
                    no_price == PriceOf(ev[2]) = None
                    no_beds == BedsUnparseable(Get(ev[2], "beds", <<>>))
                    no_coordinates == "longitude" \notin DOMAIN ev[2]
                IN /\ no_price => MatchesPrice(ev[2], f)
                   /\ no_beds => MatchesBeds(ev[2], f)
                   /\ no_coordinates => MatchesGeo(ev[2], f)
                   /\ (no_price /\ no_beds /\ no_coordinates
                       /\ MatchesNeighborhoods(ev[2], f))
                         => (listing_matches_user(ev[2], users[U]) /\ Attempted(U, ev))
      ]_vars

\* the filters f with one sub-filter changed to absent/unset (for the price
\* bounds: the minimum, the maximum, or both)
Unset(f) ==
    {[f EXCEPT !.neighborhoods = {}],
     [f EXCEPT !.min_price = 0],
     [f EXCEPT !.max_price = 0],
     [f EXCEPT !.min_price = 0, !.max_price = 0],
     [f EXCEPT !.bed_rooms = {}],
     [f EXCEPT !.geo_bounds = None]}

\* C19: whenever a listing matches a subscriber's preferences (and so whenever
\* the fan-out attempts its DM), it also matches the preferences with any single
\* sub-filter changed to absent/unset.
C19_UnsetNeverRejects ==
    [][FanoutStep
          => \A U \in get_all_subscribed_users(users), ev \in AllEvents :
                (listing_matches_user(ev[2], users[U]) \/ Attempted(U, ev))
                   => \A g \in Unset(users[U].filters) :
                         listing_matches_user(ev[2], [users[U] EXCEPT !.filters = g])
      ]_vars

\* a fan-out has attempted the DM of a listing with a price, a bed count, a label
\* and coordinates for a subscriber who has set all four sub-filters
C19_Witness ==
    /\ pc = "cleanup"
    /\ \E U \in DOMAIN users :
          LET f == users[U].filters
          IN /\ f.neighborhoods # {}
             /\ f.min_price > 0
             /\ f.max_price > 0
             /\ f.bed_rooms # {}
             /\ f.geo_bounds # None
             /\ Len(new_listings) = 1
             /\ PriceOf(new_listings[1]) # None
             /\ ~BedsUnparseable(new_listings[1].beds)
             /\ "longitude" \in DOMAIN new_listings[1]
             /\ \E i \in 1..Len(notifs) :
                   IsDm(notifs[i], U, new_listings[1].url, "new_listing")

\* the preferences of U with the no-fee flag flipped
FlagFlipped(user) == [user EXCEPT !.filters.no_fee = ~user.filters.no_fee]

\* C20 as stated: the match predicate does not look at the no-fee flag, and every
\* DM a fan-out delivers to a subscriber whose flag is set is for a listing of a
\* run whose search queries carried the no-fee filter.
C20_NoFeeEnforcedAtQuery ==
    [][FanoutStep
          => /\ \A U \in get_all_subscribed_users(users), ev \in AllEvents :
                   listing_matches_user(ev[2], users[U])
                      <=> listing_matches_user(ev[2], FlagFlipped(users[U]))
             /\ \A j \in 1..Len(NewSends) :
                   (/\ NewSends[j].chan = "dm"
                    /\ NewSends[j].ok
                    /\ users[NewSends[j].user].filters.no_fee)
                      => \E i \in 1..Len(queries) : queries[i].no_fee
      ]_vars

\* a send of the run has failed
FailedSend == \E i \in 1..Len(notifs) : ~notifs[i].ok

\* the run has saved: every record of the working copy is in the store
Persisted ==
    /\ pc = "done"
    /\ \A u \in DOMAIN seen :
          /\ u \in DOMAIN store
          /\ \A k \in DOMAIN seen[u] : k \in DOMAIN store[u] /\ store[u][k] = seen[u][k]

\* a broadcast was attempted for every new listing of a non-first run
BroadcastsAttempted ==
    (~is_first_run /\ webhook_url)
       => \A i \in 1..Len(new_listings) :
             \E j \in 1..Len(notifs) :
                /\ notifs[j].chan = "webhook"
                /\ notifs[j].kind = "new_listing"
                /\ notifs[j].url = new_listings[i].url

\* the fan-out attempts a DM for every event that matches a subscriber with the
\* toggle of its kind on and that the log does not hold for that subscriber
DmsAttempted ==
    \A U \in get_all_subscribed_users(users), K \in Kinds :
       \A i \in 1..Len(Events(K)) :
          LET L == Events(K)[i].url
          IN (/\ Enabled(U, K)
              /\ listing_matches_user(Events(K)[i], users[U])
              /\ ~was_notification_sent(notification_log, U, L, K))
                => \E j \in 1..Len(NewSends) : IsDm(NewSends[j], U, L, K)

\* C21: a failed broadcast or personalized send does not abort the run or block
\* later notifications: whatever sends have failed, every new listing of a
\* non-first run has its broadcast attempted, the run leaves the loop over the
\* listings only when none is left, the fan-out attempts every DM that is due,
\* and a run in which a send has failed goes on to persist its working copy.
C21_SendFailureDoesNotAbort ==
    /\ [](BroadcastsAttempted
          /\ (pc \in {"summary", "personal", "cleanup", "save", "done"}
                 => listings = <<>> /\ area_idx = Len(neighborhoods) + 1))
    /\ [][(FanoutStep /\ ~is_first_run /\ bot_token /\ use_mongodb) => DmsAttempted]_vars
    /\ (FailedSend ~> Persisted)

\* a run has saved after the broadcast of its first new listing failed, the
\* broadcast of its second new listing went out, the DM for the first failed
\* and the DM for the second was attempted
C21_Witness ==
    /\ Persisted
    /\ Len(new_listings) = 2
    /\ Len(notifs) = 4
    /\ notifs[1].chan = "webhook" /\ ~notifs[1].ok
    /\ notifs[2].chan = "webhook" /\ notifs[2].ok
    /\ notifs[3].chan = "dm" /\ ~notifs[3].ok /\ notifs[3].url = new_listings[1].url
    /\ notifs[4].chan = "dm" /\ notifs[4].url = new_listings[2].url

\* the geo lookups without a result that a step made for u
FailedLookup(u, tracked) == GeoCall(u, tracked, None) \in (calls' \ calls)

\* a new listing whose lookup gave nothing is tracked without coordinates, is
\* among the new listings and has its broadcast attempted
NewWithoutGeo(u) ==
    /\ u \in DOMAIN seen'
    /\ "latitude" \notin DOMAIN seen'[u]
    /\ "longitude" \notin DOMAIN seen'[u]
    /\ Len(new_listings') = Len(new_listings) + 1
    /\ new_listings'[Len(new_listings')].url = u
    /\ "latitude" \notin DOMAIN new_listings'[Len(new_listings')]
    /\ NewSends = IF BroadcastsNew(is_first_run, webhook_url)
                  THEN <<Webhook("new_listing", u, u \notin webhook_fails)>>
                  ELSE <<>>

\* a tracked record whose lookup gave nothing stays, and differs from what it
\* was only by what the observation itself writes: last_scraped, and the price
\* and its history on a price drop
TrackedWithoutGeo(u) ==
    /\ u \in DOMAIN seen'
    /\ DOMAIN seen'[u] \subseteq DOMAIN seen[u] \cup {"last_scraped", "price_history"}
    /\ \A k \in DOMAIN seen[u] \ {"last_scraped", "price", "price_history"} :
          k \in DOMAIN seen'[u] /\ seen'[u][k] = seen[u][k]
    /\ seen'[u] = MarkScraped(seen[u], now) \/ Len(price_drops') = Len(price_drops) + 1

\* the effect of a lookup that gave nothing, in the loop over the listings
FailedLookupIsNoEnrichment ==
    [][ProcessStep
          => \A u \in URLS :
                /\ FailedLookup(u, FALSE) => NewWithoutGeo(u)
                /\ FailedLookup(u, TRUE) => TrackedWithoutGeo(u)
      ]_vars

\* C22: a geo lookup that fails or returns nothing is treated as no enrichment
\* and never ends the run: a new listing is still tracked and notified, without
\* coordinates, and a tracked record is neither removed nor changed by it.
C22_GeoFailureNeverFatal ==
    /\ [](pc # "crashed")
    /\ FailedLookupIsNoEnrichment

\* the step that fetches the pages of an area, and the answers it got
FetchStep == pc = "scrape" /\ Len(fetched') = Len(fetched) + 1
LastFetched == fetched'[Len(fetched')]

\* the records of the first n of the pages ps, in order
RECURSIVE RecordsOf(_, _)
RecordsOf(ps, n) ==
    IF n = 0 THEN <<>> ELSE RecordsOf(ps, n - 1) \o ps[n].listings

\* a fetch of the run has failed
FetchFailed == \E i \in 1..Len(fetched) : \E k \in 1..Len(fetched[i]) : ~fetched[i][k].ok

\* the sweep has run: a record that is stale now had its status checked
SweepRan ==
    \A u \in DOMAIN seen :
       IsStale(seen[u], now) => \E c \in calls : c.call = "status" /\ c.url = u

\* C23: a fetch failure on page k >= 2 of an area keeps the records of pages
\* 1..k-1 in the result of the area, and a fetch failure on any page of an area
\* does not prevent the remaining areas from being scraped, the staleness sweep
\* from running, or the tracked state from being persisted.
C23_PartialPagesKept ==
    /\ [][FetchStep
            => \A k \in 2..Len(LastFetched) :
                  ~LastFetched[k].ok
                     => /\ raw_listings' = RecordsOf(LastFetched, k - 1)
                        /\ pc' = "filter"
                        /\ FilterListings(raw_listings', FilterArea)
                              = RecordsOf(LastFetched, k - 1)
         ]_vars
    /\ (FetchFailed ~> (/\ Persisted
                        /\ Len(fetched) = Len(neighborhoods)
                        /\ Len(queries) = Len(neighborhoods)
                        /\ SweepRan))

\* a run over two areas has saved: the third page of the first area failed to
\* load, the records of its first two pages are tracked, the second area was
\* scraped to its fifth page, and the stale record was status-checked
C23_Witness ==
    /\ Persisted
    /\ Len(fetched) = 2
    /\ Len(fetched[1]) = 3
    /\ ~fetched[1][3].ok
    /\ {"p1", "p2"} \subseteq DOMAIN seen
    /\ Len(fetched[2]) = PageCap
    /\ "p5" \in DOMAIN seen
    /\ \E c \in calls : c.call = "status" /\ c.url = "u0"

\* the fetches of an area number at most PageCap, and from page first on no
\* page is fetched after one that failed to load or yielded no record
FetchesStop(ps, first) ==
    /\ Len(ps) <= PageCap
    /\ \A k \in first..(Len(ps) - 1) : ps[k].ok /\ Len(ps[k].listings) > 0

\* the cap and the early stop, for the pages after the first
FetchesStopPastFirst == [][FetchStep => FetchesStop(LastFetched, 2)]_vars

\* C24: for one area in one run the scraper issues at most 5 page fetches
\* whatever page count the site reports, and it fetches no further page once a
\* page has yielded zero records or a fetch has failed.
C24_FetchesCappedAndStop == [][FetchStep => FetchesStop(LastFetched, 1)]_vars

\* an invocation of the daily digest, and the sends it attempted
DigestStep == digests' = digests + 1
NewDigestSends == SubSeq(digest_log', Len(digest_log) + 1, Len(digest_log'))

\* the records the invocation finds recent
DigestRecent == RecentListings(load_seen(use_mongodb, store, store_list, now), now)

\* a subscriber the invocation owes a digest: subscribed, the toggle on, DMs
\* configured, and no digest logged for the day
DigestDue(U) ==
    /\ bot_token /\ use_mongodb
    /\ users[U].subscribed
    /\ users[U].notification_settings.daily_digest
    /\ ~was_notification_sent(notification_log, U, DigestKey(now), "daily_digest")

\* C25: with a webhook configured every daily-digest invocation emits exactly
\* one broadcast digest that carries the analytics, whatever the number of
\* recent records, zero included; and a personalized digest is attempted for
\* every subscriber that is due one, even when no recent record matches.
C25_DigestAlwaysSent ==
    [][DigestStep
          => /\ webhook_url
                => /\ Cardinality({i \in 1..Len(NewDigestSends) :
                                      NewDigestSends[i].chan = "webhook"}) = 1
                   /\ NewDigestSends[1] \in
                         {DigestSend("webhook", "", Cardinality(DigestRecent),
                                     compute_digest_analytics(
                                        load_seen(use_mongodb, store, store_list, now),
                                        DigestRecent),
                                     ok, now) : ok \in BOOLEAN}
             /\ \A U \in DOMAIN users :
                   DigestDue(U)
                      => \E i \in 1..Len(NewDigestSends) :
                            /\ NewDigestSends[i].chan = "dm"
                            /\ NewDigestSends[i].user = U
                            /\ NewDigestSends[i].listings =
                                  Cardinality({l \in DigestRecent :
                                                  listing_matches_user(l, users[U])})
      ]_vars

\* two invocations: on day 0 the broadcast digest lists one recent record and
\* the subscriber's digest lists none, as the record is not in the subscriber's
\* area; on day 2 no record is recent and both digests are sent again
C25_Witness ==
    /\ Len(digest_log) = 4
    /\ digest_log[1].chan = "webhook" /\ digest_log[1].listings = 1
    /\ digest_log[2].chan = "dm" /\ digest_log[2].listings = 0
    /\ digest_log[3].chan = "webhook" /\ digest_log[3].listings = 0
    /\ digest_log[3].analytics.total_tracked = 1
    /\ digest_log[4].chan = "dm" /\ digest_log[4].day = 2

\* C26: across the daily-digest invocations at most one personalized digest is
\* attempted per subscriber per UTC calendar day, and none for a subscriber
\* whose digest toggle is off or who is not subscribed.
C26_OneDigestPerDay ==
    /\ \A i, j \in 1..Len(digest_log) :
          (/\ i < j
           /\ digest_log[i].chan = "dm"
           /\ digest_log[j].chan = "dm"
           /\ digest_log[i].user = digest_log[j].user)
             => digest_log[i].day # digest_log[j].day
    /\ \A i \in 1..Len(digest_log) :
          digest_log[i].chan = "dm"
             => /\ users[digest_log[i].user].subscribed
                /\ users[digest_log[i].user].notification_settings.daily_digest

\* three invocations, two of them on day 0: the digest of day 0 failed and was
\* not attempted again that day, the next one went out on day 1
C26_Witness ==
    /\ digests = 3
    /\ now = 1
    /\ Cardinality({i \in 1..Len(digest_log) : digest_log[i].chan = "dm"}) = 2
    /\ \E i, j \in 1..Len(digest_log) :
          /\ digest_log[i].chan = "dm" /\ digest_log[i].day = 0 /\ ~digest_log[i].ok
          /\ digest_log[j].chan = "dm" /\ digest_log[j].day = 1
    /\ Cardinality({i \in 1..Len(digest_log) :
                       digest_log[i].chan = "webhook" /\ digest_log[i].day = 0}) = 2

\* the text of the page, whatever its case, holds the phrase
TextHas(page, phrase) ==
    LET text == get_text(page)
    IN \E i \in 1..(Len(text) - Len(phrase) + 1) :
          \A k \in 1..Len(phrase) : LowerChar(text[i + k - 1]) = phrase[k]

\* C27: the live status check yields exactly one of active, gone, unknown:
\* "gone" if and only if the response is HTTP 404 or a response below 400 whose
\* page text says no longer available or off market; "unknown" for a network
\* error and for every other status from 400 on, 403 included; "active"
\* otherwise.
C27_StatusClassification ==
    fn_output # None
       => LET response == fn_input[2]
              status == fn_output[1]
              is_gone == /\ ~response.error
                         /\ \/ response.status = 404
                            \/ /\ response.status < 400
                               /\ \/ TextHas(response.page, NoLongerAvailable)
                                  \/ TextHas(response.page, OffMarket)
              is_unknown == \/ response.error
                            \/ response.status >= 400 /\ response.status # 404
          IN /\ status \in StatusAnswers
             /\ status = "gone" <=> is_gone
             /\ status = "unknown" <=> is_unknown
             /\ status = "active" <=> ~is_gone /\ ~is_unknown

\* the check answered "gone" for a 200 response whose page says OFF MARKET
C27_Witness ==
    /\ fn_output = Some("gone")
    /\ fn_input[2].status = 200
    /\ fn_input[2].page = <<<<"O", "F", "F", " ", "M", "A", "R", "K", "E", "T">>>>

\* the score computed for the input, and the input with another price, or with
\* the first station at another distance
Scored == fn_output # None /\ fn_output[1] # None
ScoreOut == fn_output[1][1].score
AtPrice(n) == [fn_input EXCEPT ![1].price = FormatPrice(n)]
AtDistance(d) == [fn_input EXCEPT ![3][1].distance_mi = d]
SubScoresOf(in) == SubScores(parse_price(in[1].price)[1], in[1], in[2], in[3])
ScoreOf(in) == compute_value_score(in[1], in[2], in[3], in[4])[1].score

\* the ways the sum of another input may fall when it lies half way: as for the
\* input itself when the sub-scores are the same, either way otherwise
HalfWays(in) ==
    {[in EXCEPT ![4] = h] :
        h \in IF SubScoresOf(in) = SubScoresOf(fn_input) THEN {fn_input[4]} ELSE BOOLEAN}

Candidate(entry) ==
    IF "last_scraped" \notin DOMAIN entry THEN TRUE
    ELSE IF entry.last_scraped < 0 THEN TRUE
    ELSE now - entry.last_scraped > StaleDays

\* record v comes strictly before record u in the order of the sweep: v has no
\* time and u has one, or both have one and v's is earlier
Staler(v, u) ==
    LET timed(e) == "last_scraped" \in DOMAIN e /\ e.last_scraped >= 0
    IN /\ timed(u)
       /\ timed(v) => v.last_scraped < u.last_scraped

\* the urls status-checked by a step, and the urls the step took from the list
\* of candidates (looked up or status-checked)
StatusChecked == {c.url : c \in {x \in calls' \ calls : x.call = "status"}}
Taken == {c.url : c \in calls' \ calls}

\* C29: a sweep status-checks at most max_checks records; every record it
\* status-checks has a last_scraped that is missing, not a date, or more than
\* seven days old; and the records it takes are the first of the candidates,
\* those without a time before those with one and these by ascending time: no
\* candidate left out comes strictly before one taken, and a candidate is left
\* out only when max_checks were taken.
C29_SweepBoundedAndOrdered ==
    [][SweepStep =>
          /\ Cardinality(StatusChecked) <= max_checks
          /\ \A u \in StatusChecked : u \in DOMAIN seen /\ Candidate(seen[u])
          /\ \A u \in Taken : u \in DOMAIN seen /\ Candidate(seen[u])
          /\ \A u \in Taken :
                \A v \in DOMAIN seen \ Taken :
                    Candidate(seen[v]) => ~Staler(seen[v], seen[u])
          /\ (\E v \in DOMAIN seen \ Taken : Candidate(seen[v]))
                => Cardinality(Taken) = max_checks
      ]_vars

\* a sweep over eleven candidates and a record scraped within seven days has
\* run: ten were status-checked, among them one without last_scraped and one
\* whose last_scraped is not a date, the candidate left out has a time, and the
\* recent record was not checked
C29_Witness ==
    /\ pc = "save"
    /\ Cardinality({u \in DOMAIN store : IsStale(store[u], now)}) = max_checks + 1
    /\ Cardinality({c \in calls : c.call = "status"}) = max_checks
    /\ \E u \in DOMAIN store :
          /\ "last_scraped" \notin DOMAIN store[u]
          /\ \E c \in calls : c.call = "status" /\ c.url = u
    /\ \E u \in DOMAIN store :
          /\ "last_scraped" \in DOMAIN store[u]
          /\ store[u].last_scraped = NotADate
          /\ \E c \in calls : c.call = "status" /\ c.url = u
    /\ \E u \in DOMAIN store :
          /\ IsStale(store[u], now)
          /\ "last_scraped" \in DOMAIN store[u]
          /\ store[u].last_scraped >= 0
          /\ \A c \in calls : c.url # u
    /\ \E u \in DOMAIN store :
          /\ ~IsStale(store[u], now)
          /\ \A c \in calls : c.url # u

\* a broadcast of a new listing, attempted
IsAnnouncement(m) == m.chan = "webhook" /\ m.kind = "new_listing"

\* the broadcasts of url u as a new listing among the sends ms
Announcements(ms, u) == {i \in 1..Len(ms) : IsAnnouncement(ms[i]) /\ ms[i].url = u}

StoredPrice(entry) == parse_price(Get(entry, "price", <<>>))
History(entry) == Get(entry, "price_history", <<>>)

\* the prices of a history go down strictly
Decreasing(h) == \A i, j \in 1..Len(h) : i < j => h[i].price > h[j].price

\* the history h2 is h1 with entries appended
Extends(h2, h1) == Len(h2) >= Len(h1) /\ SubSeq(h2, 1, Len(h1)) = h1

\* the record e2 carries on the record e1: the price is not higher, and the
\* history is the one of e1 with lower and lower prices appended, the last of
\* them the stored price
CarriesOn(e2, e1) ==
    StoredPrice(e1) # None =>
        /\ StoredPrice(e2) # None
        /\ StoredPrice(e2)[1] <= StoredPrice(e1)[1]
        /\ Extends(History(e2), History(e1))
        /\ \A i \in (Len(History(e1)) + 1)..Len(History(e2)) :
              /\ History(e2)[i].price < StoredPrice(e1)[1]
              /\ History(e2)[i].price >= StoredPrice(e2)[1]
              /\ \A j \in (Len(History(e1)) + 1)..(i - 1) :
                    History(e2)[j].price > History(e2)[i].price
        /\ Decreasing(History(e1)) => Decreasing(History(e2))

InsideBounds(lon) == geo_bounds.west_longitude <= lon /\ lon <= geo_bounds.east_longitude

\* the records of d that store a longitude store one inside the bounds
CoordinatesInside(d) ==
    \A u \in DOMAIN d : "longitude" \in DOMAIN d[u] => InsideBounds(d[u].longitude)

\* a lookup for the new listing u that resolved to a longitude outside the bounds
ResolvedOutsideNew(c, u) ==
    /\ c.call = "geo"
    /\ c.url = u
    /\ ~c.tracked
    /\ c.geo # None
    /\ c.geo[1].longitude # None
    /\ ~InsideBounds(c.geo[1].longitude[1])

\* C32: in every state the records of the working copy and of the store that
\* have a longitude have one inside the bounds; a step that processes a listing
\* without record and looks it up to a longitude outside the bounds creates no
\* record, adds no new listing to the events of the run and sends nothing; and a
\* step that creates a record has a lookup for the listing that did not resolve
\* outside the bounds.
C32_TrackedInsideBounds ==
    /\ [](CoordinatesInside(seen) /\ CoordinatesInside(store))
    /\ [][ProcessStep =>
             LET u == Head(listings).url
             IN /\ (u \notin DOMAIN seen /\ \E c \in calls' \ calls : ResolvedOutsideNew(c, u))
                   => /\ u \notin DOMAIN seen'
                      /\ new_listings' = new_listings
                      /\ notifs' = notifs
                /\ (u \notin DOMAIN seen /\ u \in DOMAIN seen')
                   => \E c \in calls' :
                         /\ c.call = "geo" /\ c.url = u /\ ~c.tracked
                         /\ ~ResolvedOutsideNew(c, u)
         ]_vars

\* a run has looked up two new listings: one resolved outside the bounds and has
\* no record, no event and no send, the other resolved inside and is tracked
\* with its coordinates and was broadcast
C32_Witness ==
    /\ pc = "summary"
    /\ ~is_first_run
    /\ \E c \in calls : ResolvedOutsideNew(c, "u2")
    /\ "u2" \notin DOMAIN seen
    /\ \A i \in 1..Len(new_listings) : new_listings[i].url # "u2"
    /\ \A i \in 1..Len(notifs) : notifs[i].url # "u2"
    /\ "u1" \in DOMAIN seen
    /\ "longitude" \in DOMAIN seen["u1"]
    /\ \E i \in 1..Len(notifs) : notifs[i].url = "u1" /\ notifs[i].kind = "new_listing"

\* the log holds a price-drop entry for subscriber U and listing L
DropLogged(log, U, L) ==
    \E e \in log : /\ e.discord_user_id = U
                   /\ e.listing_url = L
                   /\ e.notification_type = "price_drop"

\* C33: a fan-out that starts with a price-drop entry for (subscriber, listing)
\* in the notification log, delivered or not, sends that subscriber no
\* price-drop DM for the listing, whatever drops the run has seen; and with a
\* webhook configured every step that records a price drop sends its broadcast,
\* whatever the log holds.
C33_OneDropDmPerListing ==
    /\ [][FanoutStep =>
             \A U \in Users, L \in URLS :
                DropLogged(notification_log, U, L)
                => \A i \in 1..Len(NewSends) : ~IsDm(NewSends[i], U, L, "price_drop")
         ]_vars
    /\ [][(ProcessStep /\ Len(price_drops') > Len(price_drops) /\ webhook_url)
             => /\ Len(NewSends) = 1
                /\ NewSends[1].chan = "webhook"
                /\ NewSends[1].kind = "price_drop"
                /\ NewSends[1].url = Head(listings).url
         ]_vars

\* the second run has seen a further drop of the listing whose first drop the
\* first run sent to the subscriber: the drop was broadcast, the fan-out is
\* over and has sent the subscriber nothing, the entry of the first run being
\* still in the log
C33_Witness ==
    /\ pc = "cleanup"
    /\ runs = MaxRuns
    /\ webhook_url
    /\ users["a"].notification_settings.price_drops
    /\ Len(price_drops) > 0
    /\ \A i \in 1..Len(price_drops) :
          /\ price_drops[i].listing.url = "u1"
          /\ price_drops[i].price_change.old_price = 3000
    /\ DropLogged(notification_log, "a", "u1")
    /\ \E i \in 1..Len(notifs) : notifs[i].chan = "webhook" /\ notifs[i].kind = "price_drop"
    /\ \A i \in 1..Len(notifs) : notifs[i].chan # "dm"

\* C34: the listing of every price-drop event holds the address, the url and
\* the neighborhood label and nothing else; and a fan-out sends a subscriber
\* with the price-drop toggle on a price-drop DM for the listing of an event
\* exactly when the area sub-filter accepts the listing and the log holds no
\* price-drop entry for the pair, whatever the subscriber's price bounds, bed
\* types and geographic bounds are.
C34_OnlyAreaRejectsDrop ==
    /\ [](\A i \in 1..Len(price_drops) :
             DOMAIN price_drops[i].listing = {"address", "url", "neighborhood"})
    /\ [][FanoutStep =>
             \A U \in get_all_subscribed_users(users) :
                \A i \in 1..Len(price_drops) :
                   LET L == price_drops[i].listing
                       sent == \E k \in 1..Len(NewSends) :
                                  IsDm(NewSends[k], U, L.url, "price_drop")
                   IN users[U].notification_settings.price_drops
                      => (sent <=> /\ MatchesNeighborhoods(L, users[U].filters)
                                   /\ ~DropLogged(notification_log, U, L.url))
         ]_vars

\* a fan-out has sent a price-drop DM to a subscriber who has a bed-type set and
\* whose price bounds and geographic bounds both reject the tracked record of
\* the listing
C34_Witness ==
    /\ pc = "cleanup"
    /\ users["a"].filters = PickyFilters({})
    /\ "u1" \in DOMAIN seen
    /\ ~MatchesPrice(seen["u1"], users["a"].filters)
    /\ users["a"].filters.bed_rooms # {}
    /\ ~MatchesGeo(seen["u1"], users["a"].filters)
    /\ \E i \in 1..Len(notifs) : IsDm(notifs[i], "a", "u1", "price_drop")

\* a price text that does not parse or parses to no more than the configured
\* maximum price
WithinCeiling(price) ==
    LET price_val == parse_price(price)
    IN price_val = None \/ price_val[1] <= max_price

\* the urls of the events of kind K that are within the ceiling
EventsWithinCeiling(K) ==
    IF K = "new_listing"
    THEN {new_listings[i].url : i \in {k \in 1..Len(new_listings) :
                                          WithinCeiling(new_listings[k].price)}}
    ELSE {price_drops[i].listing.url : i \in {k \in 1..Len(price_drops) :
                                          price_drops[k].price_change.new_price <= max_price}}

\* C35: every search is built with the configured maximum price, for the areas
\* that only a subscriber names too; every listing the filter pipeline lets
\* through, every tracked record in the working copy and in the store and every
\* new-listing event has a price that does not parse or is not above the
\* configured maximum; and every broadcast and every DM of a run is for a
\* listing with such a price, whatever the subscriber's own maximum is.
C35_GlobalCeilingEverywhere ==
    /\ [](/\ \A i \in 1..Len(queries) : queries[i].price = max_price
          /\ \A i \in 1..Len(listings) : WithinCeiling(listings[i].price)
          /\ \A u \in DOMAIN seen : WithinCeiling(Get(seen[u], "price", <<>>))
          /\ \A u \in DOMAIN store : WithinCeiling(Get(store[u], "price", <<>>))
          /\ \A i \in 1..Len(new_listings) : WithinCeiling(new_listings[i].price)
          /\ \A i \in 1..Len(notifs) :
                notifs[i].kind \in Kinds => notifs[i].url \in EventsWithinCeiling(notifs[i].kind))
    /\ [][ProcessStep => WithinCeiling(Head(listings).price)]_vars

\* the run of a subscriber with an unlimited maximum price has fetched, for the
\* area only the subscriber names, a card above the configured maximum and a
\* card below it: the first has no record and no send, the second is tracked
\* and was broadcast
C35_Witness ==
    /\ pc = "cleanup"
    /\ users["a"].filters.max_price = 0
    /\ users["a"].filters.neighborhoods = {"midtown"}
    /\ neighborhoods[1] = "midtown"
    /\ \E k \in 1..Len(fetched[1]) :
          \E j \in 1..Len(fetched[1][k].listings) :
             /\ fetched[1][k].listings[j].url = "u2"
             /\ fetched[1][k].listings[j].price = P9000
    /\ "u2" \notin DOMAIN seen
    /\ \A i \in 1..Len(notifs) : notifs[i].url # "u2"
    /\ "u1" \in DOMAIN seen
    /\ \E i \in 1..Len(notifs) : notifs[i].url = "u1" /\ notifs[i].kind = "new_listing"

\* C36: when run follows run and every run ends its sweep, a stale record that
\* the site never shows again and whose status check answers "gone" whenever it
\* is made is eventually gone from the store, whatever other stale records there
\* are and whatever their status checks answer.
C36_GoneRecordEventuallyRemoved ==
    ([]<>(pc = "save")) => <>(Awaited \notin DOMAIN store)

\* the DMs the two processes delivered to subscriber U about listing L, kind K
DeliveredDms(U, L, K) ==
    {x \in UNION {{<<p, i>> : i \in 1..Len(fanouts[p].sent)} : p \in DOMAIN fanouts} :
        IsDm(fanouts[x[1]].sent[x[2]], U, L, K) /\ fanouts[x[1]].sent[x[2]].ok}

\* C37: when two scrape-and-notify runs overlap on the same store and the same
\* notification log, no subscriber is delivered two personalized notifications
\* of the same kind about the same listing.
C37_NoDuplicateDmWhenRunsOverlap ==
    \A U \in Users, L \in URLS, K \in Kinds : Cardinality(DeliveredDms(U, L, K)) <= 1

\* C38: a daily-digest invocation leaves the tracked listings as they were (no
\* record created, updated or removed, in either format of the store) and the
\* users as they were; all it changes of the persistent state is the
\* notification log, which keeps every entry it had and gains only entries of
\* today's personalized digests.
C38_DigestOnlyAppendsToLog ==
    [][DigestStep
         => /\ store' = store
            /\ store_list' = store_list
            /\ users' = users
            /\ notification_log \subseteq notification_log'
            /\ \A e \in notification_log' \ notification_log :
                  /\ e.notification_type = "daily_digest"
                  /\ e.listing_url = "digest-" \o ToString(now)
                  /\ e.discord_user_id \in Users]_vars

C38_Witness ==
    /\ digests = 2
    /\ now = 1
    /\ DOMAIN store = {"u1"}
    /\ store["u1"] = TrackedEntry(Listing("u1", P3000, "Kips Bay", OneBed), 0)
    /\ \E e, f \in notification_log :
          /\ e.listing_url = "digest-0" /\ e.notification_type = "daily_digest"
          /\ f.listing_url = "digest-1" /\ f.notification_type = "daily_digest"

\* a command changes the document of U, who was subscribed / who was paused
PauseStep(U) ==
    /\ U \in DOMAIN users /\ users[U].subscribed
    /\ (U \notin DOMAIN users' \/ users'[U] # users[U])
ResumeStep(U) ==
    /\ U \in DOMAIN users /\ ~users[U].subscribed
    /\ (U \notin DOMAIN users' \/ users'[U] # users[U])

\* the step keeps U, with the filters and the toggles U had
KeepsPreferences(U) ==
    /\ DOMAIN users' = DOMAIN users
    /\ users'[U].filters = users[U].filters
    /\ users'[U].notification_settings = users[U].notification_settings

\* U is not subscribed when the step begins
Paused(U) == U \notin DOMAIN users \/ ~users[U].subscribed

TypeOK ==
    /\ pc \in {"idle", "scrape", "filter", "process", "crashed", "summary", "personal", "cleanup", "save", "done"}
    /\ DOMAIN seen \subseteq URLS
    /\ DOMAIN store \subseteq URLS
    /\ runs \in 0..MaxRuns
    /\ now \in 0..MaxTime
    /\ dropped \subseteq URLS

====
